---- MODULE Spec2Model ----
(***************************************************************************)
(* Fogline: the two-peer game client (placement, gameplay, combat and the  *)
(* message protocol that keeps the two boards in step).                    *)
(*                                                                         *)
(* Each peer runs the same script.  Its module-level variables are the     *)
(* fields of peers[p]; chan[p] holds the messages in flight to peer p      *)
(* (the reliable, ordered data channel); timers[p] holds the callbacks     *)
(* peer p has scheduled with setTimeout and that have not run yet.         *)
(*                                                                         *)
(* The game is played with PairsPerPlayer pairs per player instead of 8:   *)
(* the deck is the first PairsPerPlayer entries of DeckUnitSlots and       *)
(* DeckTerrainSlots, and TOTAL_CARD_PAIRS_TO_PLACE is twice that number.   *)
(* Grid keys "x_y" are modelled as the pairs <<x, y>>.                     *)
(***************************************************************************)
EXTENDS Integers, Sequences, FiniteSets, TLC

\* ------------------------------------------------------------------ bounds

\* Pairs dealt to each player (8 in the shipped game).
PairsPerPlayer == 3
\* Board clicks land on columns START_GRID_COORD .. START_GRID_COORD + GridCols - 1
\* and rows START_GRID_COORD .. START_GRID_COORD + GridRows - 1.
GridCols == 3
GridRows == 2
\* The placing player picks among the first MaxPick cards of the pool shown.
MaxPick == 1
\* Math.random() streams tried by one resetGame call.
MaxSeed == 0
\* Move/attack actions followed in one session.
MaxTurns == 2
\* A session with reset clicks: the clicks, and the placements and move/attack actions
\* followed.
MaxResets == 1
MaxPlacementsReset == 7
MaxTurnsReset == 1
\* A session with the message log recorded: the move/attack actions followed.
MaxTurnsLog == 1
\* A session in which the connection may close: the close or error events, and the
\* move/attack actions followed.
MaxCloses == 2
MaxTurnsConn == 1
\* A session that starts in the middle of a game: the move/attack actions followed,
\* the rotations of the line-up round the block of cards, and the terrain cards
\* tried on each tile.
MaxTurnsPlay == 3
MaxLineupShift == 5
MaxTerrainShift == 3
\* The legal spots are computed for the sets of cells at most SpotsSpan away from the
\* origin in each direction.
SpotsSpan == 1

\* --------------------------------------------------------------- constants

START_GRID_COORD == 10
TOTAL_CARD_PAIRS_TO_PLACE == 2 * PairsPerPlayer

TERRAIN_TYPES == [PLAINS |-> "Plains", FOREST |-> "Forest", MOUNTAIN |-> "Mountain"]

unitStats ==
  ("Mobile Command" :> [attack |-> 1, defense |-> 2, quantity |-> 1,
                        canTraverse |-> {TERRAIN_TYPES.PLAINS}]) @@
  ("Tank" :> [attack |-> 4, defense |-> 4, quantity |-> 2,
              canTraverse |-> {TERRAIN_TYPES.PLAINS}]) @@
  ("Infantry" :> [attack |-> 3, defense |-> 3, quantity |-> 3,
                  canTraverse |-> {TERRAIN_TYPES.PLAINS, TERRAIN_TYPES.FOREST,
                                   TERRAIN_TYPES.MOUNTAIN}]) @@
  ("Artillery" :> [attack |-> 5, defense |-> 1, quantity |-> 1,
                   canTraverse |-> {TERRAIN_TYPES.PLAINS}]) @@
  ("Special Ops" :> [attack |-> 3, defense |-> 1, quantity |-> 1,
                     canTraverse |-> {TERRAIN_TYPES.PLAINS, TERRAIN_TYPES.FOREST,
                                      TERRAIN_TYPES.MOUNTAIN}])

\* The order in which "for (const type in unitStats)" visits the unit types.
unitTypeOrder == <<"Mobile Command", "Tank", "Infantry", "Artillery", "Special Ops">>

\* terrainRules without the Forest bonus.
terrainRulesNoBonus ==
  ("Plains" :> [defenseBonus |-> 0]) @@
  ("Forest" :> [defenseBonus |-> 0]) @@
  ("Mountain" :> [defenseBonus |-> 0])

terrainRules ==
  ("Plains" :> [defenseBonus |-> 0]) @@
  ("Forest" :> [defenseBonus |-> 1]) @@
  ("Mountain" :> [defenseBonus |-> 0])

fixedTerrainCards == <<
  [top |-> "Plains",   right |-> "Forest",   bottom |-> "Plains",   left |-> "Forest"],
  [top |-> "Plains",   right |-> "Mountain", bottom |-> "Plains",   left |-> "Mountain"],
  [top |-> "Forest",   right |-> "Plains",   bottom |-> "Forest",   left |-> "Plains"],
  [top |-> "Mountain", right |-> "Plains",   bottom |-> "Mountain", left |-> "Plains"],
  [top |-> "Forest",   right |-> "Forest",   bottom |-> "Plains",   left |-> "Mountain"],
  [top |-> "Mountain", right |-> "Mountain", bottom |-> "Plains",   left |-> "Forest"],
  [top |-> "Forest",   right |-> "Mountain", bottom |-> "Forest",   left |-> "Plains"],
  [top |-> "Mountain", right |-> "Forest",   bottom |-> "Mountain", left |-> "Plains"] >>

\* ------------------------------------------------------------------ values

Peers == {1, 2}
Other(p) == IF p = 1 THEN 2 ELSE 1

\* null values of the script
NoUnit == [unitName |-> "null"]
NoTerrain == [terrainIndex |-> -1]
NoOwner == 0
NoIndex == 0

ClickCells ==
  (START_GRID_COORD .. START_GRID_COORD + GridCols - 1) \X
  (START_GRID_COORD .. START_GRID_COORD + GridRows - 1)

Min(a, b) == IF a < b THEN a ELSE b

RECURSIVE Concat(_)
Concat(ss) == IF ss = << >> THEN << >> ELSE Head(ss) \o Concat(Tail(ss))

\* --------------------------------------------------------------- the deck

getUnitImagePath(owner, unitName, instance) == <<"unit", owner, unitName, instance>>

getTerrainImagePath(owner, t) == <<"terrain", owner, t.left, t.top, t.right, t.bottom>>

\* The unit objects built by generatePlayerUnitList before the shuffle.
unitObjects(playerNum) ==
  Concat([k \in 1..Len(unitTypeOrder) |->
    LET type == unitTypeOrder[k] IN
    [i \in 1..unitStats[type].quantity |->
      [unitName |-> type,
       instance |-> i,
       stats |-> [attack |-> unitStats[type].attack, defense |-> unitStats[type].defense],
       imagePath |-> getUnitImagePath(playerNum, type, i),
       canTraverse |-> unitStats[type].canTraverse]]])

\* The terrain object generatePlayerTerrainList builds for a terrain index (0-based).
terrainObject(playerNum, index) ==
  [terrainIndex |-> index,
   terrainData |-> fixedTerrainCards[index + 1],
   imagePath |-> getTerrainImagePath(playerNum, fixedTerrainCards[index + 1])]

\* The scaled deck: which entries of the 8 unit objects and which terrain indices are
\* dealt, in order of preference (all 8 when PairsPerPlayer = 8).
DeckUnitSlots == <<1, 4, 7, 2, 8, 5, 3, 6>>
DeckTerrainSlots == <<0, 2, 4, 1, 3, 5, 6, 7>>

\* Math.random(): stream number seed, k-th call, as an integer in 0 .. RandomScale - 1
\* standing for the fraction value / RandomScale.
RandomScale == 8
MathRandom(seed, k) == (seed * (3 * k + 1) + (seed + 1) * 7) % RandomScale

\* The exchange that writes one side only.
swapLosesElement(arr, i, j) == [arr EXCEPT ![i] = arr[j]]

swap(arr, i, j) == [arr EXCEPT ![i] = arr[j], ![j] = arr[i]]

\* Fisher-Yates on a copy; positions are 1-based here, rnd(i) is the Math.random()
\* value drawn for JS index i - 1.
RECURSIVE shuffleFrom(_, _, _, _)
shuffleFrom(newArray, i, seed, k) ==
  IF i <= 1 THEN newArray
  ELSE LET j == ((MathRandom(seed, k) * i) \div RandomScale) + 1
       IN shuffleFrom(swap(newArray, i, j), i - 1, seed, k + 1)

shuffle(array, seed, k) == shuffleFrom(array, Len(array), seed, k)

generatePlayerUnitList(playerNum, seed, k) ==
  shuffle([i \in 1..PairsPerPlayer |-> unitObjects(playerNum)[DeckUnitSlots[i]]], seed, k)

generatePlayerTerrainList(playerNum, seed, k) ==
  LET terrainIndices == shuffle([i \in 1..PairsPerPlayer |-> DeckTerrainSlots[i]], seed, k)
  IN [i \in 1..Len(terrainIndices) |-> terrainObject(playerNum, terrainIndices[i])]

\* ------------------------------------------------------------------- state

VARIABLES peers, chan, timers, scope, probe

vars == <<peers, chan, timers, scope, probe>>

\* The module-level variables of a freshly loaded script, once the connection object
\* exists: connectToPeer gave the caller role 1, the 'connection' event gave the
\* callee role 2; the data channel is not open yet.
InitialPeer(role) ==
  [localPlayerRole |-> role,
   connOpen |-> FALSE,
   opponentDisplayName |-> "null",
   gameState |-> "CONNECTING",
   board |-> << >>,
   currentPlayer |-> 1,
   placedPositions |-> {},
   selectedCardIndex |-> NoIndex,
   defeatedUnits |-> << >>,
   nextCardId |-> 0,
   isResolvingAttack |-> FALSE,
   playerAvailableUnits |-> << << >>, << >> >>,
   playerAvailableTerrains |-> << << >>, << >> >>,
   selectedUnitDataForPlacement |-> NoUnit,
   selectedTerrainDataForPlacement |-> NoTerrain,
   placedCardPairCount |-> 0,
   messageLog |-> ""]

\* scope is what is followed of the session: the placements, move/attack actions,
\* reset clicks and close events left, and whether the message log (write-only in the
\* script) is recorded in the state.  probe holds the argument and the result of a
\* function computed on its own.
NoProbe == [occupied |-> {}, computed |-> FALSE, spots |-> {}]

Start(nPlacements, nTurns, nResets, nCloses, log) ==
  /\ peers = [p \in Peers |-> InitialPeer(p)]
  /\ chan = [p \in Peers |-> << >>]
  /\ timers = [p \in Peers |-> << >>]
  /\ scope = [placements |-> nPlacements, turns |-> nTurns, resets |-> nResets,
              closes |-> nCloses, log |-> log]
  /\ probe = NoProbe

Init == Start(TOTAL_CARD_PAIRS_TO_PLACE, MaxTurns, 0, 0, FALSE)

\* A handler runs on a context: the peer's variables, the messages it has sent and the
\* callbacks it has scheduled, in order.
Ctx(s) == [s |-> s, out |-> << >>, sched |-> << >>]

logMessage(c, msg) == [c EXCEPT !.s.messageLog = msg]

\* sendData that does not send a reveal.
sendDataDropsReveal(c, type, payload) ==
  IF type = "reveal" THEN c
  ELSE IF c.s.connOpen
  THEN [c EXCEPT !.out = Append(@, [type |-> type, payload |-> payload])]
  ELSE logMessage(c, "Error: Not connected to opponent.")

sendData(c, type, payload) ==
  IF c.s.connOpen
  THEN [c EXCEPT !.out = Append(@, [type |-> type, payload |-> payload])]
  ELSE logMessage(c, "Error: Not connected to opponent.")

\* ------------------------------------------------------------------- setup

\* resetGame that keeps the pools it has generated for player 2.
resetGameKeepsOpponentPools(c, seed) ==
  IF c.s.localPlayerRole # 1 THEN logMessage(c, "Waiting for Player 1 to reset the game.")
  ELSE IF ~c.s.connOpen THEN logMessage(c, "Cannot reset game: Not connected.")
  ELSE
    LET p1UnitsData == generatePlayerUnitList(1, seed, 1)
        p2UnitsData == generatePlayerUnitList(2, seed, PairsPerPlayer)
        p1TerrainsData == generatePlayerTerrainList(1, seed, 2 * PairsPerPlayer - 1)
        p2TerrainsData == generatePlayerTerrainList(2, seed, 3 * PairsPerPlayer - 2)
        setupData == [player2Units |-> p2UnitsData, player2Terrains |-> p2TerrainsData]
        c1 == [c EXCEPT !.s.board = << >>,
                        !.s.placedPositions = {},
                        !.s.selectedCardIndex = NoIndex,
                        !.s.isResolvingAttack = FALSE,
                        !.s.defeatedUnits = << >>,
                        !.s.nextCardId = 0,
                        !.s.playerAvailableUnits = <<p1UnitsData, p2UnitsData>>,
                        !.s.playerAvailableTerrains = <<p1TerrainsData, p2TerrainsData>>]
        c2 == sendData(c1, "setup", setupData)
        c3 == [c2 EXCEPT !.s.gameState = "PLACEMENT",
                         !.s.currentPlayer = 1,
                         !.s.placedCardPairCount = 0,
                         !.s.selectedUnitDataForPlacement = NoUnit,
                         !.s.selectedTerrainDataForPlacement = NoTerrain]
    IN logMessage(c3, "Setup complete. Player 1's turn to place.")

resetGame(c, seed) ==
  IF c.s.localPlayerRole # 1 THEN logMessage(c, "Waiting for Player 1 to reset the game.")
  ELSE IF ~c.s.connOpen THEN logMessage(c, "Cannot reset game: Not connected.")
  ELSE
    LET p1UnitsData == generatePlayerUnitList(1, seed, 1)
        p2UnitsData == generatePlayerUnitList(2, seed, PairsPerPlayer)
        p1TerrainsData == generatePlayerTerrainList(1, seed, 2 * PairsPerPlayer - 1)
        p2TerrainsData == generatePlayerTerrainList(2, seed, 3 * PairsPerPlayer - 2)
        setupData == [player2Units |-> p2UnitsData, player2Terrains |-> p2TerrainsData]
        c1 == [c EXCEPT !.s.board = << >>,
                        !.s.placedPositions = {},
                        !.s.selectedCardIndex = NoIndex,
                        !.s.isResolvingAttack = FALSE,
                        !.s.defeatedUnits = << >>,
                        !.s.nextCardId = 0,
                        !.s.playerAvailableUnits = <<p1UnitsData, << >> >>,
                        !.s.playerAvailableTerrains = <<p1TerrainsData, << >> >>]
        c2 == sendData(c1, "setup", setupData)
        c3 == [c2 EXCEPT !.s.gameState = "PLACEMENT",
                         !.s.currentPlayer = 1,
                         !.s.placedCardPairCount = 0,
                         !.s.selectedUnitDataForPlacement = NoUnit,
                         !.s.selectedTerrainDataForPlacement = NoTerrain]
    IN logMessage(c3, "Setup complete. Player 1's turn to place.")

\* applySetup with the wrong phase: a receiver that is already past
\* Connecting goes back to Connecting.
applySetupToConnecting(c, setupData) ==
  LET c1 == [c EXCEPT !.s.board = << >>,
                      !.s.placedPositions = {},
                      !.s.selectedCardIndex = NoIndex,
                      !.s.isResolvingAttack = FALSE,
                      !.s.defeatedUnits = << >>,
                      !.s.nextCardId = 0,
                      !.s.playerAvailableUnits = << << >>, setupData.player2Units>>,
                      !.s.playerAvailableTerrains = << << >>, setupData.player2Terrains>>,
                      !.s.gameState = IF c.s.gameState = "CONNECTING"
                                        THEN "PLACEMENT" ELSE "CONNECTING",
                      !.s.currentPlayer = 1,
                      !.s.placedCardPairCount = 0,
                      !.s.selectedUnitDataForPlacement = NoUnit,
                      !.s.selectedTerrainDataForPlacement = NoTerrain]
  IN logMessage(c1, "Setup complete. Waiting for Player 1 to place.")

\* applySetup that stores the pools received as those of player 1.
applySetupAsPlayer1(c, setupData) ==
  LET c1 == [c EXCEPT !.s.board = << >>,
                      !.s.placedPositions = {},
                      !.s.selectedCardIndex = NoIndex,
                      !.s.isResolvingAttack = FALSE,
                      !.s.defeatedUnits = << >>,
                      !.s.nextCardId = 0,
                      !.s.playerAvailableUnits = <<setupData.player2Units, << >> >>,
                      !.s.playerAvailableTerrains = <<setupData.player2Terrains, << >> >>,
                      !.s.gameState = "PLACEMENT",
                      !.s.currentPlayer = 1,
                      !.s.placedCardPairCount = 0,
                      !.s.selectedUnitDataForPlacement = NoUnit,
                      !.s.selectedTerrainDataForPlacement = NoTerrain]
  IN logMessage(c1, "Setup complete. Waiting for Player 1 to place.")

applySetup(c, setupData) ==
  LET c1 == [c EXCEPT !.s.board = << >>,
                      !.s.placedPositions = {},
                      !.s.selectedCardIndex = NoIndex,
                      !.s.isResolvingAttack = FALSE,
                      !.s.defeatedUnits = << >>,
                      !.s.nextCardId = 0,
                      !.s.playerAvailableUnits = << << >>, setupData.player2Units>>,
                      !.s.playerAvailableTerrains = << << >>, setupData.player2Terrains>>,
                      !.s.gameState = "PLACEMENT",
                      !.s.currentPlayer = 1,
                      !.s.placedCardPairCount = 0,
                      !.s.selectedUnitDataForPlacement = NoUnit,
                      !.s.selectedTerrainDataForPlacement = NoTerrain]
  IN logMessage(c1, "Setup complete. Waiting for Player 1 to place.")

\* --------------------------------------------------------------- placement

\* Neighbors with the four diagonal cells added.
NeighborsWithDiagonals(pos) ==
  {<<pos[1] + dx, pos[2] + dy>> : dx \in {-1, 0, 1}, dy \in {-1, 0, 1}} \ {pos}

\* The spots the script offers for the next card (the same loop appears in
\* handleBoardClickForPlacement, in updateUI and in generateAutoPlacements).
Neighbors(pos) ==
  {<<pos[1] + 1, pos[2]>>, <<pos[1] - 1, pos[2]>>, <<pos[1], pos[2] + 1>>, <<pos[1], pos[2] - 1>>}

\* potentialSpots without the test that the neighbour is free.
potentialSpotsKeepsOccupied(placed) ==
  IF Cardinality(placed) = 0
  THEN {<<START_GRID_COORD, START_GRID_COORD>>}
  ELSE UNION {Neighbors(pos) : pos \in placed}

potentialSpots(placed) ==
  IF Cardinality(placed) = 0
  THEN {<<START_GRID_COORD, START_GRID_COORD>>}
  ELSE {n \in UNION {Neighbors(pos) : pos \in placed} : n \notin placed}

\* The dashed placeholders updateUI has drawn on the board.
Placeholders(s) ==
  IF s.gameState = "PLACEMENT" THEN potentialSpots(s.placedPositions) ELSE {}

\* placeCard is always called with the card id of the placement data.
placeCard(c, gridX, gridY, owner, unitData, terrainDataObj, cardIdToUse) ==
  LET card == [id |-> cardIdToUse,
               unitData |-> unitData,
               terrainData |-> terrainDataObj,
               hidden |-> TRUE,
               owner |-> owner,
               gridX |-> gridX,
               gridY |-> gridY]
  IN [c EXCEPT !.s.nextCardId = IF cardIdToUse >= @ THEN cardIdToUse + 1 ELSE @,
               !.s.board = Append(@, card),
               !.s.placedPositions = @ \cup {<<gridX, gridY>>}]

\* applyPlacement that leaves the placed terrain in the pool.
applyPlacementKeepsTerrain(c, data) ==
  LET c1 == placeCard(c, data.gridX, data.gridY, data.owner, data.unitData,
                      data.terrainData, data.cardId)
      keepUnit(u) == u.imagePath # data.unitData.imagePath
      c2 == [c1 EXCEPT
               !.s.playerAvailableUnits[data.owner] = SelectSeq(@, keepUnit),
               !.s.placedCardPairCount = @ + 1,
               !.s.currentPlayer = data.nextPlayer]
      c3 == IF c2.s.placedCardPairCount >= TOTAL_CARD_PAIRS_TO_PLACE
            THEN logMessage([c2 EXCEPT !.s.gameState = "GAMEPLAY"],
                            "Placement complete! Player 1's turn to move or attack.")
            ELSE logMessage(c2, "Player's turn to place.")
  IN [c3 EXCEPT !.s.selectedUnitDataForPlacement = NoUnit,
                !.s.selectedTerrainDataForPlacement = NoTerrain]

applyPlacement(c, data) ==
  LET c1 == placeCard(c, data.gridX, data.gridY, data.owner, data.unitData,
                      data.terrainData, data.cardId)
      keepUnit(u) == u.imagePath # data.unitData.imagePath
      keepTerrain(t) == t.imagePath # data.terrainData.imagePath
      c2 == [c1 EXCEPT
               !.s.playerAvailableUnits[data.owner] = SelectSeq(@, keepUnit),
               !.s.playerAvailableTerrains[data.owner] = SelectSeq(@, keepTerrain),
               !.s.placedCardPairCount = @ + 1,
               !.s.currentPlayer = data.nextPlayer]
      c3 == IF c2.s.placedCardPairCount >= TOTAL_CARD_PAIRS_TO_PLACE
            THEN logMessage([c2 EXCEPT !.s.gameState = "GAMEPLAY"],
                            "Placement complete! Player 1's turn to move or attack.")
            ELSE logMessage(c2, "Player's turn to place.")
  IN [c3 EXCEPT !.s.selectedUnitDataForPlacement = NoUnit,
                !.s.selectedTerrainDataForPlacement = NoTerrain]

\* A click on the board at grid cell (targetGridX, targetGridY).
handleBoardClickForPlacement(c, targetGridX, targetGridY) ==
  IF c.s.gameState # "PLACEMENT" THEN c
  ELSE IF c.s.currentPlayer # c.s.localPlayerRole
  THEN logMessage(c, "It's not your turn to place.")
  ELSE IF ~c.s.connOpen THEN logMessage(c, "Not connected to opponent.")
  ELSE IF c.s.selectedUnitDataForPlacement = NoUnit
          \/ c.s.selectedTerrainDataForPlacement = NoTerrain
  THEN logMessage(c, "Please select both a unit and a terrain card first.")
  ELSE IF <<targetGridX, targetGridY>> \notin Placeholders(c.s)
  THEN logMessage(c, "Invalid placement spot. Click on one of the dashed outlines.")
  ELSE IF <<targetGridX, targetGridY>> \notin potentialSpots(c.s.placedPositions)
  THEN logMessage(c, "Invalid placement spot (validation failed). Click on one of the dashed outlines.")
  ELSE
    LET nextPlayer == IF c.s.currentPlayer = 1 THEN 2 ELSE 1
        placementData == [owner |-> c.s.currentPlayer,
                          unitData |-> c.s.selectedUnitDataForPlacement,
                          terrainData |-> c.s.selectedTerrainDataForPlacement,
                          gridX |-> targetGridX,
                          gridY |-> targetGridY,
                          nextPlayer |-> nextPlayer,
                          cardId |-> c.s.nextCardId]
    IN applyPlacement(sendData(c, "placement", placementData), placementData)

selectUnitForPlacement(c, unitData) ==
  IF c.s.gameState # "PLACEMENT" \/ c.s.currentPlayer # c.s.localPlayerRole THEN c
  ELSE logMessage([c EXCEPT !.s.selectedUnitDataForPlacement = unitData], "Selected Unit")

selectTerrainForPlacement(c, terrainDataObj) ==
  IF c.s.gameState # "PLACEMENT" \/ c.s.currentPlayer # c.s.localPlayerRole THEN c
  ELSE logMessage([c EXCEPT !.s.selectedTerrainDataForPlacement = terrainDataObj],
                  "Selected Terrain")

\* ---------------------------------------------------------------- gameplay

\* board.findIndex(card => card.id === id): 1-based here, NoIndex for -1.
findCardIndexById(s, id) ==
  LET found == {i \in 1..Len(s.board) : s.board[i].id = id}
  IN IF found = {} THEN NoIndex ELSE CHOOSE i \in found : \A k \in found : i <= k

NoDirection == [direction |-> "null", opposite |-> "null"]

\* getDirectionInfo that takes a diagonal neighbour for the one to the right or left.
getDirectionInfoDiagonal(card1, card2) ==
  LET dx == card2.gridX - card1.gridX
      dy == card2.gridY - card1.gridY
  IN IF dx = 1 /\ dy \in {-1, 0, 1} THEN [direction |-> "right", opposite |-> "left"]
     ELSE IF dx = -1 /\ dy \in {-1, 0, 1} THEN [direction |-> "left", opposite |-> "right"]
     ELSE IF dx = 0 /\ dy = 1 THEN [direction |-> "bottom", opposite |-> "top"]
     ELSE IF dx = 0 /\ dy = -1 THEN [direction |-> "top", opposite |-> "bottom"]
     ELSE NoDirection

\* getDirectionInfo that names the target's far edge as the entry edge.
getDirectionInfoFarEdge(card1, card2) ==
  LET dx == card2.gridX - card1.gridX
      dy == card2.gridY - card1.gridY
  IN IF dx = 1 /\ dy = 0 THEN [direction |-> "right", opposite |-> "right"]
     ELSE IF dx = -1 /\ dy = 0 THEN [direction |-> "left", opposite |-> "left"]
     ELSE IF dx = 0 /\ dy = 1 THEN [direction |-> "bottom", opposite |-> "bottom"]
     ELSE IF dx = 0 /\ dy = -1 THEN [direction |-> "top", opposite |-> "top"]
     ELSE NoDirection

getDirectionInfo(card1, card2) ==
  LET dx == card2.gridX - card1.gridX
      dy == card2.gridY - card1.gridY
  IN IF dx = 1 /\ dy = 0 THEN [direction |-> "right", opposite |-> "left"]
     ELSE IF dx = -1 /\ dy = 0 THEN [direction |-> "left", opposite |-> "right"]
     ELSE IF dx = 0 /\ dy = 1 THEN [direction |-> "bottom", opposite |-> "top"]
     ELSE IF dx = 0 /\ dy = -1 THEN [direction |-> "top", opposite |-> "bottom"]
     ELSE NoDirection

\* terrainData.terrainData[edge]
edgeOf(terrainDataObj, edge) ==
  CASE edge = "top" -> terrainDataObj.terrainData.top
    [] edge = "right" -> terrainDataObj.terrainData.right
    [] edge = "bottom" -> terrainDataObj.terrainData.bottom
    [] edge = "left" -> terrainDataObj.terrainData.left

\* canUnitTraverse that lets every unit cross every edge.
canUnitTraverseAnyEdge(unitData, terrainType) ==
  IF unitData = NoUnit THEN FALSE ELSE terrainType \in {"Plains", "Forest", "Mountain"}

canUnitTraverse(unitData, terrainType) ==
  IF unitData = NoUnit THEN FALSE ELSE terrainType \in unitData.canTraverse

\* applyReveal that leaves the card as it is.
applyRevealIgnored(c, data) == c

applyReveal(c, data) ==
  LET cardIndex == findCardIndexById(c.s, data.cardId)
  IN IF cardIndex = NoIndex THEN c
     ELSE IF c.s.board[cardIndex].hidden
     THEN [c EXCEPT !.s.board[cardIndex].hidden = FALSE]
     ELSE c

\* A TypeError (directionInfo is null, or the attacker tile has no unit) is thrown
\* before the first assignment: the handler ends there and nothing has changed.
applyMove(c, data) ==
  LET attackerCardIndex == findCardIndexById(c.s, data.attackerCardId)
      targetCardIndex == findCardIndexById(c.s, data.targetCardId)
  IN IF attackerCardIndex = NoIndex \/ targetCardIndex = NoIndex THEN c
     ELSE
       LET attackerCard == c.s.board[attackerCardIndex]
           targetCard == c.s.board[targetCardIndex]
       IN IF getDirectionInfo(attackerCard, targetCard) = NoDirection THEN c
          ELSE IF attackerCard.unitData = NoUnit THEN c
          ELSE
            LET c1 == logMessage(c, "Player moved unit.")
            IN [c1 EXCEPT !.s.board[targetCardIndex].unitData = attackerCard.unitData,
                          !.s.board[targetCardIndex].owner = attackerCard.owner,
                          !.s.board[targetCardIndex].hidden = FALSE,
                          !.s.board[attackerCardIndex].unitData = NoUnit,
                          !.s.board[attackerCardIndex].owner = NoOwner,
                          !.s.board[attackerCardIndex].hidden = TRUE,
                          !.s.selectedCardIndex = NoIndex,
                          !.s.currentPlayer = data.nextPlayer,
                          !.s.isResolvingAttack = FALSE]

\* applyAttackResult with the winning defender hidden again.
applyAttackResultHidesWinner(c, data) ==
  LET winnerCardIndex == findCardIndexById(c.s, data.winnerCardId)
      loserCardIndex == findCardIndexById(c.s, data.loserCardId)
  IN IF winnerCardIndex = NoIndex \/ loserCardIndex = NoIndex THEN c
     ELSE
       LET winnerCard == c.s.board[winnerCardIndex]
           loserCard == c.s.board[loserCardIndex]
       IN IF winnerCard.unitData = NoUnit \/ loserCard.unitData = NoUnit THEN c
          ELSE
            LET c1 == logMessage(c, "Combat resolved.")
                c2 == [c1 EXCEPT !.s.defeatedUnits = Append(@, data.defeatedUnitData)]
                c3 == IF data.attackerMoved
                      THEN [c2 EXCEPT
                              !.s.board[loserCardIndex].unitData = winnerCard.unitData,
                              !.s.board[loserCardIndex].owner = winnerCard.owner,
                              !.s.board[loserCardIndex].hidden = FALSE,
                              !.s.board[winnerCardIndex].unitData = NoUnit,
                              !.s.board[winnerCardIndex].owner = NoOwner,
                              !.s.board[winnerCardIndex].hidden = TRUE]
                      ELSE [c2 EXCEPT
                              !.s.board[loserCardIndex].unitData = NoUnit,
                              !.s.board[loserCardIndex].owner = NoOwner,
                              !.s.board[loserCardIndex].hidden = TRUE,
                              !.s.board[winnerCardIndex].hidden = TRUE]
                c4 == [c3 EXCEPT !.s.selectedCardIndex = NoIndex,
                                 !.s.isResolvingAttack = FALSE]
            IN IF data.gameOver
               THEN logMessage([c4 EXCEPT !.s.gameState = "GAMEOVER"], data.winMessage)
               ELSE [c4 EXCEPT !.s.currentPlayer = data.nextPlayer]

\* A TypeError (the winner's or the loser's tile has no unit) is thrown by the first
\* logMessage, before the first assignment.
applyAttackResult(c, data) ==
  LET winnerCardIndex == findCardIndexById(c.s, data.winnerCardId)
      loserCardIndex == findCardIndexById(c.s, data.loserCardId)
  IN IF winnerCardIndex = NoIndex \/ loserCardIndex = NoIndex THEN c
     ELSE
       LET winnerCard == c.s.board[winnerCardIndex]
           loserCard == c.s.board[loserCardIndex]
       IN IF winnerCard.unitData = NoUnit \/ loserCard.unitData = NoUnit THEN c
          ELSE
            LET c1 == logMessage(c, "Combat resolved.")
                c2 == [c1 EXCEPT !.s.defeatedUnits = Append(@, data.defeatedUnitData)]
                c3 == IF data.attackerMoved
                      THEN [c2 EXCEPT
                              !.s.board[loserCardIndex].unitData = winnerCard.unitData,
                              !.s.board[loserCardIndex].owner = winnerCard.owner,
                              !.s.board[loserCardIndex].hidden = FALSE,
                              !.s.board[winnerCardIndex].unitData = NoUnit,
                              !.s.board[winnerCardIndex].owner = NoOwner,
                              !.s.board[winnerCardIndex].hidden = TRUE]
                      ELSE [c2 EXCEPT
                              !.s.board[loserCardIndex].unitData = NoUnit,
                              !.s.board[loserCardIndex].owner = NoOwner,
                              !.s.board[loserCardIndex].hidden = TRUE,
                              !.s.board[winnerCardIndex].hidden = FALSE]
                c4 == [c3 EXCEPT !.s.selectedCardIndex = NoIndex,
                                 !.s.isResolvingAttack = FALSE]
            IN IF data.gameOver
               THEN logMessage([c4 EXCEPT !.s.gameState = "GAMEOVER"], data.winMessage)
               ELSE [c4 EXCEPT !.s.currentPlayer = data.nextPlayer]

\* commandUnitName spelt differently from the key of unitStats.
commandUnitNameMisspelt == "MobileCommand"

commandUnitName == "Mobile Command"

\* resolveAttackLocally that counts the defeated unit among those remaining.
resolveAttackLocallyCountsLoser(s, attackerIndex, defenderIndex, nextPlayer) ==
  LET attackerCard == s.board[attackerIndex]
      defenderCard == s.board[defenderIndex]
  IN IF attackerCard.unitData = NoUnit \/ defenderCard.unitData = NoUnit
     THEN [error |-> TRUE, winnerCardId |-> -1, loserCardId |-> -1]
     ELSE
       LET directionInfo == getDirectionInfo(attackerCard, defenderCard)
           defenseEdgeTerrain == edgeOf(defenderCard.terrainData, directionInfo.opposite)
           terrainBonus == terrainRules[defenseEdgeTerrain].defenseBonus
           attackValue == attackerCard.unitData.stats.attack
           defenseValue == defenderCard.unitData.stats.defense + terrainBonus
           attackerWins == attackValue > defenseValue
           winnerCard == IF attackerWins THEN attackerCard ELSE defenderCard
           loserCard == IF attackerWins THEN defenderCard ELSE attackerCard
           defeatedUnitData == [unitData |-> loserCard.unitData,
                                terrainData |-> loserCard.terrainData,
                                owner |-> loserCard.owner]
           loserOwner == loserCard.owner
           loserIsCommand == loserCard.unitData.unitName = commandUnitName
           remainingUnitsLoser ==
             Cardinality({i \in 1..Len(s.board) :
                            /\ s.board[i].owner = loserOwner
                            /\ s.board[i].unitData # NoUnit
                            /\ s.board[i].unitData.unitName # commandUnitName})
           commandLoserExists ==
             \E i \in 1..Len(s.board) :
                /\ s.board[i].unitData # NoUnit
                /\ s.board[i].unitData.unitName = commandUnitName
                /\ s.board[i].owner = loserOwner
                /\ s.board[i].id # loserCard.id
           gameOver == loserIsCommand \/ (remainingUnitsLoser = 0 /\ commandLoserExists)
           winMessage ==
             IF loserIsCommand
             THEN "Player " \o ToString(winnerCard.owner)
                    \o " wins by capturing the Mobile Command!"
             ELSE IF gameOver
             THEN "Player " \o ToString(winnerCard.owner)
                    \o " wins by eliminating all other movable units!"
             ELSE ""
       IN [winnerCardId |-> winnerCard.id,
           loserCardId |-> loserCard.id,
           defeatedUnitData |-> defeatedUnitData,
           attackerMoved |-> attackerWins,
           nextPlayer |-> IF gameOver THEN s.currentPlayer ELSE nextPlayer,
           gameOver |-> gameOver,
           winMessage |-> winMessage]

\* Computes the outcome of an attack; the board is not modified.
resolveAttackLocally(s, attackerIndex, defenderIndex, nextPlayer) ==
  LET attackerCard == s.board[attackerIndex]
      defenderCard == s.board[defenderIndex]
  IN IF attackerCard.unitData = NoUnit \/ defenderCard.unitData = NoUnit
     THEN [error |-> TRUE, winnerCardId |-> -1, loserCardId |-> -1]
     ELSE
       LET directionInfo == getDirectionInfo(attackerCard, defenderCard)
           defenseEdgeTerrain == edgeOf(defenderCard.terrainData, directionInfo.opposite)
           terrainBonus == terrainRules[defenseEdgeTerrain].defenseBonus
           attackValue == attackerCard.unitData.stats.attack
           defenseValue == defenderCard.unitData.stats.defense + terrainBonus
           attackerWins == attackValue > defenseValue
           winnerCard == IF attackerWins THEN attackerCard ELSE defenderCard
           loserCard == IF attackerWins THEN defenderCard ELSE attackerCard
           defeatedUnitData == [unitData |-> loserCard.unitData,
                                terrainData |-> loserCard.terrainData,
                                owner |-> loserCard.owner]
           loserOwner == loserCard.owner
           loserIsCommand == loserCard.unitData.unitName = commandUnitName
           remainingUnitsLoser ==
             Cardinality({i \in 1..Len(s.board) :
                            /\ s.board[i].owner = loserOwner
                            /\ s.board[i].unitData # NoUnit
                            /\ s.board[i].unitData.unitName # commandUnitName
                            /\ s.board[i].id # loserCard.id})
           commandLoserExists ==
             \E i \in 1..Len(s.board) :
                /\ s.board[i].unitData # NoUnit
                /\ s.board[i].unitData.unitName = commandUnitName
                /\ s.board[i].owner = loserOwner
                /\ s.board[i].id # loserCard.id
           gameOver == loserIsCommand \/ (remainingUnitsLoser = 0 /\ commandLoserExists)
           winMessage ==
             IF loserIsCommand
             THEN "Player " \o ToString(winnerCard.owner)
                    \o " wins by capturing the Mobile Command!"
             ELSE IF gameOver
             THEN "Player " \o ToString(winnerCard.owner)
                    \o " wins by eliminating all other movable units!"
             ELSE ""
       IN [winnerCardId |-> winnerCard.id,
           loserCardId |-> loserCard.id,
           defeatedUnitData |-> defeatedUnitData,
           attackerMoved |-> attackerWins,
           nextPlayer |-> IF gameOver THEN s.currentPlayer ELSE nextPlayer,
           gameOver |-> gameOver,
           winMessage |-> winMessage]

\* handleCardClick without the test of the turn.
handleCardClickOutOfTurn(c, cardId) ==
  IF c.s.gameState # "GAMEPLAY" \/ c.s.isResolvingAttack THEN c
  ELSE IF FALSE THEN logMessage(c, "It's not your turn.")
  ELSE
    LET clickedCardIndex == findCardIndexById(c.s, cardId) IN
    IF clickedCardIndex = NoIndex THEN c
    ELSE
      LET clickedCard == c.s.board[clickedCardIndex]
          c0 == logMessage(c, "")
      IN
      IF c.s.selectedCardIndex = NoIndex
      THEN \* selecting a unit
        IF clickedCard.owner # c.s.currentPlayer
        THEN logMessage(c0, "Cannot select opponent's card.")
        ELSE IF clickedCard.unitData = NoUnit
        THEN logMessage(c0, "Cannot select an empty space.")
        ELSE
          LET c1 == IF clickedCard.hidden
                    THEN sendData(logMessage([c0 EXCEPT !.s.board[clickedCardIndex].hidden = FALSE],
                                             "You revealed unit."),
                                  "reveal", [cardId |-> clickedCard.id])
                    ELSE c0
          IN [c1 EXCEPT !.s.selectedCardIndex = clickedCardIndex]
      ELSE \* target selected
        LET attackerCard == c.s.board[c.s.selectedCardIndex] IN
        IF clickedCardIndex = c.s.selectedCardIndex
        THEN logMessage([c0 EXCEPT !.s.selectedCardIndex = NoIndex], "Card deselected.")
        ELSE
          LET directionInfo == getDirectionInfo(attackerCard, clickedCard) IN
          IF directionInfo = NoDirection THEN logMessage(c0, "Target is not adjacent.")
          ELSE
            LET entryTerrainType == edgeOf(clickedCard.terrainData, directionInfo.opposite) IN
            IF ~canUnitTraverse(attackerCard.unitData, entryTerrainType)
            THEN logMessage(c0, "Unit cannot enter via " \o entryTerrainType \o " ("
                                  \o directionInfo.opposite \o " edge of target).")
            ELSE IF clickedCard.owner = c.s.currentPlayer
            THEN logMessage(c0, "Cannot move/attack your own unit.")
            ELSE
              LET nextPlayer == IF c.s.currentPlayer = 1 THEN 2 ELSE 1 IN
              IF clickedCard.unitData = NoUnit
              THEN \* moving to an empty adjacent tile
                LET moveData == [attackerCardId |-> attackerCard.id,
                                 targetCardId |-> clickedCard.id,
                                 nextPlayer |-> nextPlayer]
                IN applyMove(sendData(logMessage(c0, "Moving unit..."), "move", moveData),
                             moveData)
              ELSE \* attacking an enemy unit
                LET c1 == logMessage([c0 EXCEPT !.s.isResolvingAttack = TRUE], "Attacking...")
                    c2 == IF clickedCard.hidden
                          THEN sendData(logMessage([c1 EXCEPT !.s.board[clickedCardIndex].hidden = FALSE],
                                                   "Revealed defender."),
                                        "reveal", [cardId |-> clickedCard.id])
                          ELSE c1
                    attackResultData == resolveAttackLocally(c2.s, c.s.selectedCardIndex,
                                                             clickedCardIndex, nextPlayer)
                    c3 == sendData(c2, "attackResult", attackResultData)
                IN [c3 EXCEPT !.sched = Append(@, attackResultData)]

\* handleCardClick that does not raise isResolvingAttack when it starts an attack.
handleCardClickKeepsAccepting(c, cardId) ==
  IF c.s.gameState # "GAMEPLAY" \/ c.s.isResolvingAttack THEN c
  ELSE IF c.s.currentPlayer # c.s.localPlayerRole THEN logMessage(c, "It's not your turn.")
  ELSE
    LET clickedCardIndex == findCardIndexById(c.s, cardId) IN
    IF clickedCardIndex = NoIndex THEN c
    ELSE
      LET clickedCard == c.s.board[clickedCardIndex]
          c0 == logMessage(c, "")
      IN
      IF c.s.selectedCardIndex = NoIndex
      THEN \* selecting a unit
        IF clickedCard.owner # c.s.currentPlayer
        THEN logMessage(c0, "Cannot select opponent's card.")
        ELSE IF clickedCard.unitData = NoUnit
        THEN logMessage(c0, "Cannot select an empty space.")
        ELSE
          LET c1 == IF clickedCard.hidden
                    THEN sendData(logMessage([c0 EXCEPT !.s.board[clickedCardIndex].hidden = FALSE],
                                             "You revealed unit."),
                                  "reveal", [cardId |-> clickedCard.id])
                    ELSE c0
          IN [c1 EXCEPT !.s.selectedCardIndex = clickedCardIndex]
      ELSE \* target selected
        LET attackerCard == c.s.board[c.s.selectedCardIndex] IN
        IF clickedCardIndex = c.s.selectedCardIndex
        THEN logMessage([c0 EXCEPT !.s.selectedCardIndex = NoIndex], "Card deselected.")
        ELSE
          LET directionInfo == getDirectionInfo(attackerCard, clickedCard) IN
          IF directionInfo = NoDirection THEN logMessage(c0, "Target is not adjacent.")
          ELSE
            LET entryTerrainType == edgeOf(clickedCard.terrainData, directionInfo.opposite) IN
            IF ~canUnitTraverse(attackerCard.unitData, entryTerrainType)
            THEN logMessage(c0, "Unit cannot enter via " \o entryTerrainType \o " ("
                                  \o directionInfo.opposite \o " edge of target).")
            ELSE IF clickedCard.owner = c.s.currentPlayer
            THEN logMessage(c0, "Cannot move/attack your own unit.")
            ELSE
              LET nextPlayer == IF c.s.currentPlayer = 1 THEN 2 ELSE 1 IN
              IF clickedCard.unitData = NoUnit
              THEN \* moving to an empty adjacent tile
                LET moveData == [attackerCardId |-> attackerCard.id,
                                 targetCardId |-> clickedCard.id,
                                 nextPlayer |-> nextPlayer]
                IN applyMove(sendData(logMessage(c0, "Moving unit..."), "move", moveData),
                             moveData)
              ELSE \* attacking an enemy unit
                LET c1 == logMessage(c0, "Attacking...")
                    c2 == IF clickedCard.hidden
                          THEN sendData(logMessage([c1 EXCEPT !.s.board[clickedCardIndex].hidden = FALSE],
                                                   "Revealed defender."),
                                        "reveal", [cardId |-> clickedCard.id])
                          ELSE c1
                    attackResultData == resolveAttackLocally(c2.s, c.s.selectedCardIndex,
                                                             clickedCardIndex, nextPlayer)
                    c3 == sendData(c2, "attackResult", attackResultData)
                IN [c3 EXCEPT !.sched = Append(@, attackResultData)]

handleCardClick(c, cardId) ==
  IF c.s.gameState # "GAMEPLAY" \/ c.s.isResolvingAttack THEN c
  ELSE IF c.s.currentPlayer # c.s.localPlayerRole THEN logMessage(c, "It's not your turn.")
  ELSE
    LET clickedCardIndex == findCardIndexById(c.s, cardId) IN
    IF clickedCardIndex = NoIndex THEN c
    ELSE
      LET clickedCard == c.s.board[clickedCardIndex]
          c0 == logMessage(c, "")
      IN
      IF c.s.selectedCardIndex = NoIndex
      THEN \* selecting a unit
        IF clickedCard.owner # c.s.currentPlayer
        THEN logMessage(c0, "Cannot select opponent's card.")
        ELSE IF clickedCard.unitData = NoUnit
        THEN logMessage(c0, "Cannot select an empty space.")
        ELSE
          LET c1 == IF clickedCard.hidden
                    THEN sendData(logMessage([c0 EXCEPT !.s.board[clickedCardIndex].hidden = FALSE],
                                             "You revealed unit."),
                                  "reveal", [cardId |-> clickedCard.id])
                    ELSE c0
          IN [c1 EXCEPT !.s.selectedCardIndex = clickedCardIndex]
      ELSE \* target selected
        LET attackerCard == c.s.board[c.s.selectedCardIndex] IN
        IF clickedCardIndex = c.s.selectedCardIndex
        THEN logMessage([c0 EXCEPT !.s.selectedCardIndex = NoIndex], "Card deselected.")
        ELSE
          LET directionInfo == getDirectionInfo(attackerCard, clickedCard) IN
          IF directionInfo = NoDirection THEN logMessage(c0, "Target is not adjacent.")
          ELSE
            LET entryTerrainType == edgeOf(clickedCard.terrainData, directionInfo.opposite) IN
            IF ~canUnitTraverse(attackerCard.unitData, entryTerrainType)
            THEN logMessage(c0, "Unit cannot enter via " \o entryTerrainType \o " ("
                                  \o directionInfo.opposite \o " edge of target).")
            ELSE IF clickedCard.owner = c.s.currentPlayer
            THEN logMessage(c0, "Cannot move/attack your own unit.")
            ELSE
              LET nextPlayer == IF c.s.currentPlayer = 1 THEN 2 ELSE 1 IN
              IF clickedCard.unitData = NoUnit
              THEN \* moving to an empty adjacent tile
                LET moveData == [attackerCardId |-> attackerCard.id,
                                 targetCardId |-> clickedCard.id,
                                 nextPlayer |-> nextPlayer]
                IN applyMove(sendData(logMessage(c0, "Moving unit..."), "move", moveData),
                             moveData)
              ELSE \* attacking an enemy unit
                LET c1 == logMessage([c0 EXCEPT !.s.isResolvingAttack = TRUE], "Attacking...")
                    c2 == IF clickedCard.hidden
                          THEN sendData(logMessage([c1 EXCEPT !.s.board[clickedCardIndex].hidden = FALSE],
                                                   "Revealed defender."),
                                        "reveal", [cardId |-> clickedCard.id])
                          ELSE c1
                    attackResultData == resolveAttackLocally(c2.s, c.s.selectedCardIndex,
                                                             clickedCardIndex, nextPlayer)
                    c3 == sendData(c2, "attackResult", attackResultData)
                IN [c3 EXCEPT !.sched = Append(@, attackResultData)]

\* --------------------------------------------------------------- messages

\* handleReceivedData that has no case for attackResult.
handleReceivedDataIgnoresResult(c, data) ==
  CASE data.type = "setup" -> applySetup(c, data.payload)
    [] data.type = "placement" -> applyPlacement(c, data.payload)
    [] data.type = "reveal" -> applyReveal(c, data.payload)
    [] data.type = "move" -> applyMove(c, data.payload)
    [] data.type = "displayName" ->
         logMessage([c EXCEPT !.s.opponentDisplayName = data.payload.name], "Opponent is named.")
    [] OTHER -> c

handleReceivedData(c, data) ==
  CASE data.type = "setup" -> applySetup(c, data.payload)
    [] data.type = "placement" -> applyPlacement(c, data.payload)
    [] data.type = "reveal" -> applyReveal(c, data.payload)
    [] data.type = "move" -> applyMove(c, data.payload)
    [] data.type = "attackResult" -> applyAttackResult(c, data.payload)
    [] data.type = "displayName" ->
         logMessage([c EXCEPT !.s.opponentDisplayName = data.payload.name], "Opponent is named.")
    [] OTHER -> c

\* conn.on('open')
onConnOpen(c, seed) ==
  LET c1 == sendData([c EXCEPT !.s.connOpen = TRUE], "displayName", [name |-> "Player"])
      c2 == logMessage(c1, "Connected!")
  IN IF c2.s.localPlayerRole = 1 THEN resetGame(c2, seed)
     ELSE logMessage(c2, "Waiting for Player 1 to start the game...")

\* conn.on('close') and conn.on('error')
onConnClose(c) ==
  LET c1 == logMessage(c, "Opponent disconnected.")
  IN [c1 EXCEPT !.s.connOpen = FALSE,
                !.s.opponentDisplayName = "null",
                !.s.gameState = "DISCONNECTED"]

onConnError(c) ==
  LET c1 == logMessage(c, "Connection Error")
  IN [c1 EXCEPT !.s.connOpen = FALSE,
                !.s.opponentDisplayName = "null",
                !.s.gameState = "DISCONNECTED"]

\* ----------------------------------------------------------------- actions

\* The handler's effects become the next state: the peer's variables, the messages
\* appended to the channel towards the opponent, the callbacks scheduled.
\* A message sent to a peer whose connection object is gone is never received.
Closed(s) == ~s.connOpen /\ s.gameState # "CONNECTING"

Commit(p, c, inbox, pending) ==
  /\ peers' = [peers EXCEPT ![p] = IF scope.log THEN c.s ELSE [c.s EXCEPT !.messageLog = ""]]
  /\ chan' = [q \in Peers |-> IF q = p THEN inbox
                              ELSE IF Closed(peers[q]) THEN chan[q]
                              ELSE chan[q] \o c.out]
  /\ timers' = [timers EXCEPT ![p] = pending \o c.sched]
  /\ UNCHANGED probe

\* The last message the handler has sent is one of types.
Sent(c, types) == c.out # << >> /\ c.out[Len(c.out)].type \in types

ConnOpen(p) ==
  /\ ~peers[p].connOpen
  /\ peers[p].gameState = "CONNECTING"
  /\ \E seed \in 0..MaxSeed :
       Commit(p, onConnOpen(Ctx(peers[p]), seed), chan[p], timers[p])
  /\ UNCHANGED scope

\* The reset button.
ResetClick(p) ==
  /\ peers[p].connOpen
  /\ \E seed \in 0..MaxSeed :
       LET c == resetGame(Ctx(peers[p]), seed)
           acts == Sent(c, {"setup"})
       IN /\ acts => scope.resets > 0
          /\ Commit(p, c, chan[p], timers[p])
          /\ scope' = IF acts THEN [scope EXCEPT !.resets = @ - 1] ELSE scope

\* The connection closes or fails at peer p: the messages it has not received yet are
\* lost.
ConnClose(p) ==
  /\ peers[p].connOpen
  /\ scope.closes > 0
  /\ \/ Commit(p, onConnClose(Ctx(peers[p])), << >>, timers[p])
     \/ Commit(p, onConnError(Ctx(peers[p])), << >>, timers[p])
  /\ scope' = [scope EXCEPT !.closes = @ - 1]

\* A click on one of the unit cards updateUI shows to the placing player.
SelectUnitClick(p) ==
  /\ peers[p].gameState = "PLACEMENT"
  /\ peers[p].localPlayerRole = peers[p].currentPlayer
  /\ \E k \in 1..Min(MaxPick, Len(peers[p].playerAvailableUnits[peers[p].currentPlayer])) :
       Commit(p, selectUnitForPlacement(Ctx(peers[p]),
                   peers[p].playerAvailableUnits[peers[p].currentPlayer][k]),
              chan[p], timers[p])
  /\ UNCHANGED scope

SelectTerrainClick(p) ==
  /\ peers[p].gameState = "PLACEMENT"
  /\ peers[p].localPlayerRole = peers[p].currentPlayer
  /\ \E k \in 1..Min(MaxPick, Len(peers[p].playerAvailableTerrains[peers[p].currentPlayer])) :
       Commit(p, selectTerrainForPlacement(Ctx(peers[p]),
                   peers[p].playerAvailableTerrains[peers[p].currentPlayer][k]),
              chan[p], timers[p])
  /\ UNCHANGED scope

\* The board's click listener: installed by resetGame and applySetup, removed by the
\* placement that starts the gameplay.
boardListener(s) ==
  s.gameState # "CONNECTING" /\ s.placedCardPairCount < TOTAL_CARD_PAIRS_TO_PLACE

BoardClick(p) ==
  /\ boardListener(peers[p])
  /\ \E cell \in ClickCells :
       LET c == handleBoardClickForPlacement(Ctx(peers[p]), cell[1], cell[2])
           acts == Sent(c, {"placement"})
       IN /\ acts => scope.placements > 0
          /\ Commit(p, c, chan[p], timers[p])
          /\ scope' = IF acts THEN [scope EXCEPT !.placements = @ - 1] ELSE scope

\* The cards' onclick handlers: set on every card of the board by the placement that
\* starts the gameplay.
cardListeners(s) ==
  s.placedCardPairCount >= TOTAL_CARD_PAIRS_TO_PLACE

CardClick(p) ==
  /\ cardListeners(peers[p])
  /\ \E i \in 1..Len(peers[p].board) :
       LET c == handleCardClick(Ctx(peers[p]), peers[p].board[i].id)
           acts == Sent(c, {"move", "attackResult"})
       IN /\ acts => scope.turns > 0
          /\ Commit(p, c, chan[p], timers[p])
          /\ scope' = IF acts THEN [scope EXCEPT !.turns = @ - 1] ELSE scope

\* conn.on('data')
Deliver(p) ==
  /\ peers[p].connOpen
  /\ chan[p] # << >>
  /\ Commit(p, handleReceivedData(Ctx(peers[p]), Head(chan[p])), Tail(chan[p]), timers[p])
  /\ UNCHANGED scope

\* The callback of setTimeout(() => applyAttackResult(attackResultData), 500).
TimerFire(p) ==
  /\ timers[p] # << >>
  /\ Commit(p, applyAttackResult(Ctx(peers[p]), Head(timers[p])), chan[p], Tail(timers[p]))
  /\ UNCHANGED scope

Next ==
  \E p \in Peers :
    \/ ConnOpen(p)
    \/ SelectUnitClick(p)
    \/ SelectTerrainClick(p)
    \/ BoardClick(p)
    \/ CardClick(p)
    \/ Deliver(p)
    \/ TimerFire(p)

\* One game, from the opening of the connection.
Spec == Init /\ [][Next]_vars

\* The same, with the message log recorded.
InitLog == Start(TOTAL_CARD_PAIRS_TO_PLACE, MaxTurnsLog, 0, 0, TRUE)
SpecLog == InitLog /\ [][Next]_vars

\* A session in which player 1 may also click the reset button.
InitReset == Start(MaxPlacementsReset, MaxTurnsReset, MaxResets, 0, FALSE)
NextReset == Next \/ \E p \in Peers : ResetClick(p)
SpecReset == InitReset /\ [][NextReset]_vars

\* A session in which the connection may close or fail at either peer.
InitConn == Start(TOTAL_CARD_PAIRS_TO_PLACE, MaxTurnsConn, 0, MaxCloses, FALSE)
NextConn == Next \/ \E p \in Peers : ConnClose(p)
SpecConn == InitConn /\ [][NextConn]_vars

\* ----------------------------------------------------- a game under way
\* A session that starts in Gameplay, on boards of six cards both peers agree on.
\* The cards form a block of 3 by 2 cells that held, going round the block from the
\* first card placed: player 1's Mobile Command, a unit of player 2, a unit of
\* player 1, player 2's Mobile Command, player 2's second Infantry and player 1's
\* second Infantry.  Player 1 has revealed its units and lost its second Infantry in
\* an attack on its neighbour; since then
\*   "oneLost":      player 2 has revealed its units and is to move;
\*   "oneLostMoved": player 2 has moved its second Infantry onto the emptied tile,
\*                   its other units are still hidden, player 1 is to move;
\*   "twoLost":      player 2's second Infantry has moved there too and has lost an
\*                   attack from there; every unit left has been revealed.

NonCommandTypes == {"Tank", "Infantry", "Artillery", "Special Ops"}

PlayHistories == {"oneLost", "oneLostMoved", "twoLost"}

PlayRing == << <<0, 0>>, <<1, 0>>, <<2, 0>>, <<2, 1>>, <<1, 1>>, <<0, 1>> >>

\* The cell of the i-th card of the line-up; the first card is on the origin.
PlayCell(shift, i) ==
  LET first == PlayRing[(shift % Len(PlayRing)) + 1]
      cell == PlayRing[((i - 1 + shift) % Len(PlayRing)) + 1]
  IN <<START_GRID_COORD + cell[1] - first[1], START_GRID_COORD + cell[2] - first[2]>>

\* Card ids in placement order: players alternate and each card touches an earlier one.
PlayCardId == <<0, 1, 2, 3, 5, 4>>
PlayPlacer == <<1, 2, 1, 2, 2, 1>>

PlayUnit(owner, type, instance) ==
  CHOOSE u \in {unitObjects(owner)[k] : k \in 1..Len(unitObjects(owner))} :
    u.unitName = type /\ u.instance = instance

PlayLineup(type1, type2, history) ==
  << PlayUnit(1, "Mobile Command", 1),
     PlayUnit(2, type2, 1),
     PlayUnit(1, type1, 1),
     PlayUnit(2, "Mobile Command", 1),
     IF history = "oneLost" THEN PlayUnit(2, "Infantry", 2) ELSE NoUnit,
     IF history = "oneLostMoved" THEN PlayUnit(2, "Infantry", 2) ELSE NoUnit >>

PlayCard(type1, type2, history, shift, rot, i) ==
  LET unitData == PlayLineup(type1, type2, history)[i]
      cell == PlayCell(shift, i)
  IN [id |-> PlayCardId[i],
      unitData |-> unitData,
      terrainData |-> terrainObject(PlayPlacer[i],
                                    (PlayCardId[i] + rot) % Len(fixedTerrainCards)),
      hidden |-> \/ unitData = NoUnit
                 \/ history = "oneLostMoved" /\ i \in {2, 4},
      owner |-> IF unitData = NoUnit THEN NoOwner ELSE unitData.imagePath[2],
      gridX |-> cell[1],
      gridY |-> cell[2]]

\* board[k] is the card with id k - 1.
PlayBoard(type1, type2, history, shift, rot) ==
  [k \in 1..Len(PlayCardId) |->
     PlayCard(type1, type2, history, shift, rot,
              CHOOSE i \in 1..Len(PlayCardId) : PlayCardId[i] = k - 1)]

\* Both second Infantry were defeated as attackers on the tile of the sixth card.
PlayDefeated(board, history) ==
  LET lost(owner) == [unitData |-> PlayUnit(owner, "Infantry", 2),
                      terrainData |-> board[PlayCardId[6] + 1].terrainData,
                      owner |-> owner]
  IN IF history = "twoLost" THEN <<lost(1), lost(2)>> ELSE <<lost(1)>>

PlayPeer(role, board, history, player) ==
  [InitialPeer(role) EXCEPT
     !.connOpen = TRUE,
     !.opponentDisplayName = "Player",
     !.gameState = "GAMEPLAY",
     !.board = board,
     !.currentPlayer = player,
     !.placedPositions = {<<board[k].gridX, board[k].gridY>> : k \in 1..Len(board)},
     !.defeatedUnits = PlayDefeated(board, history),
     !.nextCardId = Len(board),
     !.placedCardPairCount = TOTAL_CARD_PAIRS_TO_PLACE]

InitPlay ==
  /\ \E type1, type2 \in NonCommandTypes, history \in PlayHistories,
        shift \in 0..MaxLineupShift, rot \in 0..MaxTerrainShift, player \in Peers :
       /\ history = "oneLost" => player = 2
       /\ history = "oneLostMoved" => player = 1
       /\ peers = [p \in Peers |->
                     PlayPeer(p, PlayBoard(type1, type2, history, shift, rot),
                              history, player)]
  /\ chan = [p \in Peers |-> << >>]
  /\ timers = [p \in Peers |-> << >>]
  /\ scope = [placements |-> 0, turns |-> MaxTurnsPlay, resets |-> 0, closes |-> 0,
              log |-> FALSE]
  /\ probe = NoProbe

NextPlay == \E p \in Peers : CardClick(p) \/ Deliver(p) \/ TimerFire(p)

SpecPlay == InitPlay /\ [][NextPlay]_vars

\* The legal placement spots, computed for every set of occupied cells around the
\* origin.
SpotsCells ==
  (START_GRID_COORD - SpotsSpan .. START_GRID_COORD + SpotsSpan) \X
  (START_GRID_COORD - SpotsSpan .. START_GRID_COORD + SpotsSpan)

InitSpots ==
  /\ peers = [p \in Peers |-> InitialPeer(p)]
  /\ chan = [p \in Peers |-> << >>]
  /\ timers = [p \in Peers |-> << >>]
  /\ scope = [placements |-> 0, turns |-> 0, resets |-> 0, closes |-> 0, log |-> FALSE]
  /\ \E occupied \in SUBSET SpotsCells :
       probe = [occupied |-> occupied, computed |-> FALSE, spots |-> {}]

ComputeSpots ==
  /\ ~probe.computed
  /\ probe' = [probe EXCEPT !.computed = TRUE, !.spots = potentialSpots(probe.occupied)]
  /\ UNCHANGED <<peers, chan, timers, scope>>

SpecSpots == InitSpots /\ [][ComputeSpots]_vars

\* ------------------------------------------------------- the full-size deal

\* Math.random() streams and positions in the stream tried for one deal.
MaxDealSeed == 7
MaxDealOffset == 4

\* Array(8): the terrain indices generatePlayerTerrainList shuffles.
TerrainIndexCount == 8

\* generatePlayerUnitList and generatePlayerTerrainList as shipped: every unit object
\* and every terrain index is dealt.
fullPlayerUnitList(playerNum, seed, k) == shuffle(unitObjects(playerNum), seed, k)

fullPlayerTerrainList(playerNum, seed, k) ==
  LET terrainIndices == shuffle([i \in 1..TerrainIndexCount |-> i - 1], seed, k)
  IN [i \in 1..Len(terrainIndices) |-> terrainObject(playerNum, terrainIndices[i])]

\* The two lists of one player are generated, in either order, from a stream of
\* Math.random() values.
InitDeal ==
  /\ peers = [p \in Peers |-> InitialPeer(p)]
  /\ chan = [p \in Peers |-> << >>]
  /\ timers = [p \in Peers |-> << >>]
  /\ scope = [placements |-> 0, turns |-> 0, resets |-> 0, closes |-> 0, log |-> FALSE]
  /\ \E playerNum \in Peers, seed \in 0..MaxDealSeed, k \in 1..MaxDealOffset :
       probe = [playerNum |-> playerNum, seed |-> seed, k |-> k,
                unitsDealt |-> FALSE, units |-> << >>,
                terrainsDealt |-> FALSE, terrains |-> << >>]

DealUnits ==
  /\ ~probe.unitsDealt
  /\ probe' = [probe EXCEPT
       !.unitsDealt = TRUE,
       !.units = fullPlayerUnitList(probe.playerNum, probe.seed, probe.k)]
  /\ UNCHANGED <<peers, chan, timers, scope>>

DealTerrains ==
  /\ ~probe.terrainsDealt
  /\ probe' = [probe EXCEPT
       !.terrainsDealt = TRUE,
       !.terrains = fullPlayerTerrainList(probe.playerNum, probe.seed, probe.k)]
  /\ UNCHANGED <<peers, chan, timers, scope>>

NextDeal == DealUnits \/ DealTerrains

SpecDeal == InitDeal /\ [][NextDeal]_vars

\* ----------------------------------------------------------- auto-placement

\* Math.random() streams and positions in the stream tried for one call, and the
\* card ids the call may start from.
MaxAutoSeed == 7
MaxAutoOffset == 4
MaxStartingCardId == 2

\* The neighbours in the order the script lists them: right, left, bottom, top.
autoNeighbors(pos) ==
  << <<pos[1] + 1, pos[2]>>, <<pos[1] - 1, pos[2]>>,
     <<pos[1], pos[2] + 1>>, <<pos[1], pos[2] - 1>> >>

\* A Set is the sequence of its keys in insertion order.
setHas(set, key) == \E i \in 1..Len(set) : set[i] = key

setAdd(set, key) == IF setHas(set, key) THEN set ELSE Append(set, key)

\* The keys the two nested forEach loops visit, in order: the four neighbours of each
\* placed position.
visitedNeighbors(placedPositions) ==
  [n \in 1..(4 * Len(placedPositions)) |->
    autoNeighbors(placedPositions[((n - 1) \div 4) + 1])[((n - 1) % 4) + 1]]

\* The keys of a Set after add was called on those of visited that are not in
\* excluded: each key once, in the order of its first add.
addedKeys(visited, excluded) ==
  LET firstAdds == {n \in 1..Len(visited) :
                      /\ ~setHas(excluded, visited[n])
                      /\ \A m \in 1..(n - 1) : visited[m] # visited[n]}
  IN [r \in 1..Cardinality(firstAdds) |->
       visited[CHOOSE n \in firstAdds :
                 Cardinality({m \in firstAdds : m < n}) = r - 1]]

\* The spots of a turn with the occupied cells left in.
autoPotentialSpotsKeepsOccupied(placedPositions) ==
  IF Len(placedPositions) = 0
  THEN << <<START_GRID_COORD, START_GRID_COORD>> >>
  ELSE addedKeys(visitedNeighbors(placedPositions), << >>)

\* Array.from(potentialSpots) of one turn.
autoPotentialSpots(placedPositions) ==
  IF Len(placedPositions) = 0
  THEN << <<START_GRID_COORD, START_GRID_COORD>> >>
  ELSE addedKeys(visitedNeighbors(placedPositions), placedPositions)

\* The return values of generateAutoPlacements: null, or the list of actions.
AutoNull == [isNull |-> TRUE, finalActions |-> << >>]

autoPairs(owner, unitsData, terrainsData) ==
  [i \in 1..Len(unitsData) |->
    [owner |-> owner, unitData |-> unitsData[i],
     terrainData |-> IF i <= Len(terrainsData) THEN terrainsData[i] ELSE NoTerrain]]

\* The turns of the loop from turn on; the k-th Math.random() value is drawn at turn.
RECURSIVE autoTurns(_, _, _, _, _, _, _, _)
autoTurns(p1Pairs, p2Pairs, turn, finalActions, placedPositions, currentCardId, seed, k) ==
  IF turn >= TOTAL_CARD_PAIRS_TO_PLACE
  THEN [isNull |-> FALSE, finalActions |-> finalActions]
  ELSE
    LET currentPlayer == (turn % 2) + 1
        currentPairsList == IF currentPlayer = 1 THEN p1Pairs ELSE p2Pairs
        pairIndex == turn \div 2
        potentialSpotsArray == autoPotentialSpots(placedPositions)
        randomIndex == (MathRandom(seed, k) * Len(potentialSpotsArray)) \div RandomScale
        chosenSpotKey == potentialSpotsArray[randomIndex + 1]
        action == currentPairsList[pairIndex + 1]
        completedAction ==
          [owner |-> action.owner, unitData |-> action.unitData,
           terrainData |-> action.terrainData,
           gridX |-> chosenSpotKey[1], gridY |-> chosenSpotKey[2],
           cardId |-> currentCardId]
    IN IF pairIndex >= Len(currentPairsList) THEN AutoNull
       ELSE IF Len(potentialSpotsArray) = 0 THEN AutoNull
       ELSE autoTurns(p1Pairs, p2Pairs, turn + 1, Append(finalActions, completedAction),
                      setAdd(placedPositions, chosenSpotKey), currentCardId + 1,
                      seed, k + 1)

generateAutoPlacements(p1UnitsData, p1TerrainsData, p2UnitsData, p2TerrainsData, startingCardId, seed, k) ==
  autoTurns(autoPairs(1, p1UnitsData, p1TerrainsData),
            autoPairs(2, p2UnitsData, p2TerrainsData),
            0, << >>, << >>, startingCardId, seed, k)

\* The function is called on the lists of a deal, or on a deal whose player 2 is one
\* pair short, with a starting card id and a stream of Math.random() values.
InitAuto ==
  /\ peers = [p \in Peers |-> InitialPeer(p)]
  /\ chan = [p \in Peers |-> << >>]
  /\ timers = [p \in Peers |-> << >>]
  /\ scope = [placements |-> 0, turns |-> 0, resets |-> 0, closes |-> 0, log |-> FALSE]
  /\ \E deal \in 0..MaxSeed, seed \in 0..MaxAutoSeed, k \in 1..MaxAutoOffset,
        startingCardId \in 0..MaxStartingCardId,
        p2Pairs \in {PairsPerPlayer - 1, PairsPerPlayer} :
       probe = [p1UnitsData |-> generatePlayerUnitList(1, deal, 1),
                p1TerrainsData |-> generatePlayerTerrainList(1, deal, 2 * PairsPerPlayer - 1),
                p2UnitsData |->
                  SubSeq(generatePlayerUnitList(2, deal, PairsPerPlayer), 1, p2Pairs),
                p2TerrainsData |->
                  SubSeq(generatePlayerTerrainList(2, deal, 3 * PairsPerPlayer - 2),
                         1, p2Pairs),
                startingCardId |-> startingCardId, seed |-> seed, k |-> k,
                computed |-> FALSE, result |-> AutoNull]

GenerateAuto ==
  /\ ~probe.computed
  /\ probe' = [probe EXCEPT
       !.computed = TRUE,
       !.result = generateAutoPlacements(probe.p1UnitsData, probe.p1TerrainsData,
                                         probe.p2UnitsData, probe.p2TerrainsData,
                                         probe.startingCardId, probe.seed, probe.k)]
  /\ UNCHANGED <<peers, chan, timers, scope>>

SpecAuto == InitAuto /\ [][GenerateAuto]_vars

\* ---------------------------------------------------- opening the connection

\* null values of conn and localPlayerRole
NoConn == 0
NoRole == 0

\* Connection k is the DataConnection peer k creates with peer.connect: one end is the
\* object peer.connect returns to k, the other end is the object the 'connection'
\* event hands to the other peer.  offered: peer.connect was called; arrived: the
\* 'connection' event has fired at the other peer; closed: close() was called on an
\* end; open[e]: the open flag of the end at peer e; listening[e]: the script has
\* registered its handlers on the end at peer e; closeSeen[e]: 'close' was emitted at
\* peer e.
NoConnection ==
  [offered |-> FALSE, arrived |-> FALSE, closed |-> FALSE,
   open |-> [e \in Peers |-> FALSE],
   listening |-> [e \in Peers |-> FALSE],
   closeSeen |-> [e \in Peers |-> FALSE]]

\* conn && conn.open, for the peer p whose variable conn holds its end of k
connIsOpen(connections, k, p) == k # NoConn /\ connections[k].open[p]

\* Two freshly loaded scripts: no connection object, no role.
InitRoles ==
  /\ peers = [p \in Peers |->
                [conn |-> NoConn] @@ [InitialPeer(p) EXCEPT !.localPlayerRole = NoRole]]
  /\ chan = [p \in Peers |-> << >>]
  /\ timers = [p \in Peers |-> << >>]
  /\ scope = [placements |-> 0, turns |-> 0, resets |-> 0, closes |-> 0, log |-> FALSE]
  /\ probe = [connections |-> [k \in Peers |-> NoConnection]]

\* The next state after an event at peer p: its variables are s, it has sent out on the
\* connection its conn holds, its inbox is inbox; connOpen is conn && conn.open.
RolesCommit(p, s, out, connections, inbox) ==
  /\ peers' = [q \in Peers |->
                 LET t == IF q = p THEN s ELSE peers[q]
                 IN [t EXCEPT !.connOpen = connIsOpen(connections, t.conn, q),
                              !.messageLog = ""]]
  /\ chan' = [q \in Peers |->
                IF q = p THEN inbox
                ELSE chan[q] \o [i \in 1..Len(out) |->
                                   [type |-> out[i].type, payload |-> out[i].payload,
                                    conn |-> s.conn]]]
  /\ probe' = [connections |-> connections]
  /\ UNCHANGED <<timers, scope>>

\* conn.on('open'), run on the variables as they are when the event fires.
onOpen(c, seed) ==
  LET c1 == sendData(c, "displayName", [name |-> "Player"])
      c2 == logMessage(c1, "Connected!")
  IN IF c2.s.localPlayerRole = 1 THEN resetGame(c2, seed)
     ELSE logMessage(c2, "Waiting for Player 1 to start the game...")

\* connectToPeer, attemptAutoReconnect: each peer connects at most once.
ConnectToPeer(p) ==
  /\ ~probe.connections[p].offered
  /\ ~peers[p].connOpen
  /\ RolesCommit(p, [peers[p] EXCEPT !.conn = p, !.localPlayerRole = 1], << >>,
                 [probe.connections EXCEPT ![p].offered = TRUE,
                                           ![p].listening[p] = TRUE],
                 chan[p])

\* peer.on('connection') at peer p, for the connection the other peer has created.
IncomingConnection(p) ==
  LET k == Other(p) IN
  /\ probe.connections[k].offered
  /\ ~probe.connections[k].arrived
  /\ IF peers[p].connOpen
     THEN RolesCommit(p, peers[p], << >>,
                      [probe.connections EXCEPT ![k].arrived = TRUE,
                                                ![k].closed = TRUE],
                      chan[p])
     ELSE RolesCommit(p, [peers[p] EXCEPT !.conn = k, !.localPlayerRole = 2], << >>,
                      [probe.connections EXCEPT ![k].arrived = TRUE,
                                                ![k].listening[p] = TRUE],
                      chan[p])

\* The end of connection k at peer e opens; 'open' is emitted there.
ConnectionOpens(k, e) ==
  LET connections == [probe.connections EXCEPT ![k].open[e] = TRUE]
      s == [peers[e] EXCEPT !.connOpen = connIsOpen(connections, peers[e].conn, e)]
  IN /\ probe.connections[k].arrived
     /\ ~probe.connections[k].closed
     /\ ~probe.connections[k].open[e]
     /\ IF probe.connections[k].listening[e]
        THEN \E seed \in 0..MaxSeed :
               LET c == onOpen(Ctx(s), seed)
               IN RolesCommit(e, c.s, c.out, connections, chan[e])
        ELSE RolesCommit(e, s, << >>, connections, chan[e])

\* 'close' is emitted at the end of the closed connection k at peer e.
ConnectionCloses(k, e) ==
  /\ probe.connections[k].closed
  /\ probe.connections[k].listening[e]
  /\ ~probe.connections[k].closeSeen[e]
  /\ RolesCommit(e, [onConnClose(Ctx(peers[e])).s EXCEPT !.conn = NoConn], << >>,
                 [probe.connections EXCEPT ![k].closeSeen[e] = TRUE,
                                           ![k].open[e] = FALSE],
                 chan[e])

\* 'data' is emitted at peer p on the end the message arrives at; the script hears it
\* if it has registered its handlers on that end.
DataArrives(p) ==
  /\ chan[p] # << >>
  /\ LET data == Head(chan[p]) IN
     /\ probe.connections[data.conn].open[p]
     /\ IF probe.connections[data.conn].listening[p]
        THEN LET c == handleReceivedData(Ctx(peers[p]), data)
             IN RolesCommit(p, c.s, c.out, probe.connections, Tail(chan[p]))
        ELSE RolesCommit(p, peers[p], << >>, probe.connections, Tail(chan[p]))

NextRoles ==
  \E p \in Peers :
    \/ ConnectToPeer(p)
    \/ IncomingConnection(p)
    \/ DataArrives(p)
    \/ \E k \in Peers : ConnectionOpens(k, p) \/ ConnectionCloses(k, p)

SpecRoles == InitRoles /\ [][NextRoles]_vars

\* ------------------------------------------------------------------ claims

Abs(n) == IF n < 0 THEN -n ELSE n

Adjacent(a, b) == Abs(a[1] - b[1]) + Abs(a[2] - b[2]) = 1

Origin == <<START_GRID_COORD, START_GRID_COORD>>

\* What the two peers are to agree on: the phase, the current player, the defeated
\* units and, for every card id, its position, owner, unit and hidden flag.
CardView(card) ==
  [id |-> card.id, gridX |-> card.gridX, gridY |-> card.gridY, owner |-> card.owner,
   unitData |-> card.unitData, hidden |-> card.hidden]

View(p) ==
  [gameState |-> peers[p].gameState,
   currentPlayer |-> peers[p].currentPlayer,
   defeatedUnits |-> peers[p].defeatedUnits,
   cards |-> {CardView(peers[p].board[i]) : i \in 1..Len(peers[p].board)}]

\* Both connections are open, no message is in flight and no deferred attack result
\* is pending.
Quiescent ==
  \A p \in Peers : peers[p].connOpen /\ chan[p] = << >> /\ timers[p] = << >>

\* C1: whenever both channel directions are empty and no local action is still being
\* applied, the two peers hold the same phase, current player, defeated-units list
\* and board.
C1_Convergence == Quiescent => View(1) = View(2)

GameMessages == {"reveal", "move", "attackResult", "placement", "setup"}

\* C2: between the sending of an attackResult and its deferred application to the
\* sender's own board, the sender handles no reveal, move, attackResult, placement or
\* setup message of the opponent.
C2_NoInboundWhileDeferred ==
  [][\A p \in Peers :
       (timers[p] # << >> /\ chan[p] # << >> /\ Head(chan[p]).type \in GameMessages)
         => ~Deliver(p)]_vars

\* Tile i of peer p is the same card before and after the step.
SameTile(p, i) ==
  /\ i <= Len(peers'[p].board)
  /\ peers'[p].board[i].id = peers[p].board[i].id

PhaseRank(gameState) ==
  CASE gameState = "CONNECTING" -> 0
    [] gameState = "PLACEMENT" -> 1
    [] gameState = "GAMEPLAY" -> 2
    [] gameState = "GAMEOVER" -> 3
    [] OTHER -> 4

ResetStep(p) ==
  peers[p].localPlayerRole = 1 /\ scope'.resets = scope.resets - 1

InboundStep(p, type) ==
  chan[p] # << >> /\ Head(chan[p]).type = type /\ chan'[p] = Tail(chan[p])

C5_DisconnectedTerminal ==
  [][\A p \in Peers :
       peers[p].gameState = "DISCONNECTED"
         => /\ peers'[p].gameState = "DISCONNECTED"
            /\ peers'[p].board = peers[p].board
            /\ peers'[p].currentPlayer = peers[p].currentPlayer]_vars

\* C6: on each peer the owners of the placed pairs alternate, starting with player 1:
\* the first card put on a board belongs to player 1, every later one to the player
\* who does not own the card placed before it.
C6_OwnersAlternate ==
  [][\A p \in Peers :
       Len(peers'[p].board) = Len(peers[p].board) + 1
         => peers'[p].board[Len(peers'[p].board)].owner =
              IF peers[p].board = << >> THEN 1
              ELSE Other(peers[p].board[Len(peers[p].board)].owner)]_vars

OwnedCards(s, player) ==
  Cardinality({i \in 1..Len(s.board) : s.board[i].owner = player})

\* C7: a peer in Gameplay has exactly TOTAL_CARD_PAIRS_TO_PLACE cards on its board;
\* it leaves Placement at the placement that brings the count to that number, with
\* as many cards of each player and with player 1 to move.
C7_GameplayAtFullBoard ==
  [][\A p \in Peers :
       /\ peers'[p].gameState = "GAMEPLAY"
            => /\ Len(peers'[p].board) = TOTAL_CARD_PAIRS_TO_PLACE
               /\ peers'[p].placedCardPairCount = TOTAL_CARD_PAIRS_TO_PLACE
       /\ (peers[p].gameState = "PLACEMENT" /\ peers'[p].gameState = "GAMEPLAY")
            => /\ peers[p].placedCardPairCount = TOTAL_CARD_PAIRS_TO_PLACE - 1
               /\ OwnedCards(peers'[p], 1) = PairsPerPlayer
               /\ OwnedCards(peers'[p], 2) = PairsPerPlayer
               /\ peers'[p].currentPlayer = 1
       /\ (/\ peers[p].gameState = "PLACEMENT"
           /\ peers[p].placedCardPairCount < TOTAL_CARD_PAIRS_TO_PLACE
           /\ peers'[p].placedCardPairCount = TOTAL_CARD_PAIRS_TO_PLACE)
            => peers'[p].gameState = "GAMEPLAY"]_vars

CardPos(card) == <<card.gridX, card.gridY>>

\* C8: on each peer's board no two cards share a position, the first card is on the
\* origin and every later card is orthogonally adjacent to a card placed before it.
C8_BoardShape ==
  \A p \in Peers :
    LET board == peers[p].board IN
    /\ \A i, j \in 1..Len(board) : i # j => CardPos(board[i]) # CardPos(board[j])
    /\ board # << >> => CardPos(board[1]) = Origin
    /\ \A i \in 2..Len(board) :
         \E j \in 1..(i - 1) : Adjacent(CardPos(board[j]), CardPos(board[i]))

\* The legal spots as the rules describe them: the origin on an empty board, else the
\* unoccupied cells with an occupied orthogonal neighbour.
LegalSpot(pos, occupied) ==
  IF occupied = {} THEN pos = Origin
  ELSE pos \notin occupied /\ \E q \in occupied : Adjacent(pos, q)

SpotsUniverse ==
  (START_GRID_COORD - SpotsSpan - 2 .. START_GRID_COORD + SpotsSpan + 2) \X
  (START_GRID_COORD - SpotsSpan - 2 .. START_GRID_COORD + SpotsSpan + 2)

\* C9: the spots computed from a set of occupied positions are exactly the origin
\* when the set is empty, and otherwise the unoccupied cells orthogonally adjacent to
\* an occupied one: no occupied cell, and no cell that is only diagonally adjacent.
C9_LegalSpotsExact ==
  probe.computed
    => /\ probe.spots = {pos \in SpotsUniverse : LegalSpot(pos, probe.occupied)}
       /\ probe.spots \cap probe.occupied = {}
       /\ probe.occupied # {}
            => \A pos \in probe.spots : \E q \in probe.occupied : Adjacent(pos, q)

\* The spots of a set with two adjacent occupied cells and a free cell that touches
\* the set by a corner only.
C9_Witness ==
  /\ probe.computed
  /\ \E a, b \in probe.occupied : Adjacent(a, b)
  /\ \E pos \in SpotsCells \ probe.occupied :
       /\ pos \notin probe.spots
       /\ \E q \in probe.occupied : Abs(pos[1] - q[1]) = 1 /\ Abs(pos[2] - q[2]) = 1
  /\ probe.spots # {}

\* A click on cell is to be rejected in state s.
PlacementRejected(s, cell) ==
  \/ s.gameState # "PLACEMENT"
  \/ s.currentPlayer # s.localPlayerRole
  \/ s.selectedUnitDataForPlacement = NoUnit
  \/ s.selectedTerrainDataForPlacement = NoTerrain
  \/ ~LegalSpot(cell, s.placedPositions)

\* C10: a placement click made outside Placement, out of turn, without both a unit
\* and a terrain selected, or on a cell that is no legal spot, changes neither the
\* board, the pools, the pair counter nor the current player and sends no message.
C10_RejectedPlacement ==
  \A p \in Peers : \A cell \in ClickCells :
    LET s == peers[p]
        c == handleBoardClickForPlacement(Ctx(s), cell[1], cell[2])
    IN PlacementRejected(s, cell)
         => /\ c.s.board = s.board
            /\ c.s.placedPositions = s.placedPositions
            /\ c.s.playerAvailableUnits = s.playerAvailableUnits
            /\ c.s.playerAvailableTerrains = s.playerAvailableTerrains
            /\ c.s.placedCardPairCount = s.placedCardPairCount
            /\ c.s.currentPlayer = s.currentPlayer
            /\ c.s.gameState = s.gameState
            /\ c.out = << >>

\* The placing player, with a unit and a terrain selected and cards on the board, has
\* just been told that the clicked cell is no legal spot.
C10_Witness ==
  \E p \in Peers :
    /\ peers[p].messageLog = "Invalid placement spot. Click on one of the dashed outlines."
    /\ peers[p].gameState = "PLACEMENT"
    /\ peers[p].currentPlayer = peers[p].localPlayerRole
    /\ peers[p].selectedUnitDataForPlacement # NoUnit
    /\ peers[p].selectedTerrainDataForPlacement # NoTerrain
    /\ peers[p].board # << >>
    /\ chan[Other(p)] = << >>

Range(seq) == {seq[i] : i \in 1..Len(seq)}

\* seq with its entries equal to x removed.
Without(seq, x) == SelectSeq(seq, LAMBDA e : e # x)

\* The cards of board that player placed (a terrain stays on its tile and carries its
\* placer).
PlacedBy(board, player) == {i \in 1..Len(board) : board[i].terrainData.imagePath[2] = player}

\* C11: on the peer that owns a pool, a placement by that player takes its unit and
\* its terrain from the pool as it was before the placement and removes exactly these
\* two; the pool changes at no other step except a new setup; after the k-th
\* placement it holds PairsPerPlayer - k units and as many terrains; no unit and no
\* terrain is on two of the cards the player has placed.
C11_PoolConsumedAtPlacement ==
  [][\A p \in Peers :
       LET s == peers[p]
           t == peers'[p]
           units == s.playerAvailableUnits[p]
           terrains == s.playerAvailableTerrains[p]
           mine == PlacedBy(t.board, p)
       IN /\ IF /\ Len(t.board) = Len(s.board) + 1
                /\ t.board[Len(t.board)].terrainData.imagePath[2] = p
             THEN LET card == t.board[Len(t.board)] IN
                  /\ card.unitData \in Range(units)
                  /\ card.terrainData \in Range(terrains)
                  /\ t.playerAvailableUnits[p] = Without(units, card.unitData)
                  /\ t.playerAvailableTerrains[p] = Without(terrains, card.terrainData)
                  /\ Len(t.playerAvailableUnits[p]) = Len(units) - 1
                  /\ Len(t.playerAvailableTerrains[p]) = Len(terrains) - 1
                  /\ \A i \in 1..Len(s.board) :
                       /\ s.board[i].unitData # card.unitData
                       /\ s.board[i].terrainData # card.terrainData
             ELSE \/ /\ t.playerAvailableUnits[p] = units
                     /\ t.playerAvailableTerrains[p] = terrains
                  \/ t.board = << >>
          /\ t.gameState \in {"PLACEMENT", "GAMEPLAY", "GAMEOVER"}
               => /\ Len(t.playerAvailableUnits[p]) = PairsPerPlayer - Cardinality(mine)
                  /\ Len(t.playerAvailableTerrains[p]) = PairsPerPlayer - Cardinality(mine)
                  /\ \A i, j \in mine :
                       i # j => t.board[i].terrainData # t.board[j].terrainData]_vars

\* Both players have placed all their pairs but one: each pool holds one unit and one
\* terrain on its owner's peer.
C11_Witness ==
  \A p \in Peers :
    /\ peers[p].gameState = "PLACEMENT"
    /\ Cardinality(PlacedBy(peers[p].board, p)) = PairsPerPlayer - 1
    /\ Len(peers[p].playerAvailableUnits[p]) = 1
    /\ Len(peers[p].playerAvailableTerrains[p]) = 1

\* What a card click may change besides the message log.
ClickEffectFree(s, c) ==
  /\ c.s.board = s.board
  /\ c.s.selectedCardIndex = s.selectedCardIndex
  /\ c.s.currentPlayer = s.currentPlayer
  /\ c.s.defeatedUnits = s.defeatedUnits
  /\ c.s.gameState = s.gameState
  /\ c.s.isResolvingAttack = s.isResolvingAttack
  /\ c.out = << >>
  /\ c.sched = << >>

\* C12: a click on a card selects, deselects, moves, attacks or sends a message only
\* if the peer is in Gameplay and the current player is the local player; in every
\* other phase and on the opponent's turn it leaves the board, the selection, the
\* turn, the defeated units and the phase unchanged and sends nothing.
C12_ClickOnlyInTurn ==
  \A p \in Peers : \A i \in 1..Len(peers[p].board) :
    LET s == peers[p]
        c == handleCardClick(Ctx(s), s.board[i].id)
    IN (s.gameState # "GAMEPLAY" \/ s.currentPlayer # s.localPlayerRole)
         => ClickEffectFree(s, c)

\* One peer is in Gameplay on the opponent's turn with a unit of its own on the board,
\* the other has lost the connection with the full board in front of it.
C12_Witness ==
  \E p \in Peers :
    /\ peers[p].gameState = "GAMEPLAY"
    /\ peers[p].currentPlayer # peers[p].localPlayerRole
    /\ \E i \in 1..Len(peers[p].board) : peers[p].board[i].owner = p
    /\ peers[Other(p)].gameState = "DISCONNECTED"
    /\ Len(peers[Other(p)].board) = TOTAL_CARD_PAIRS_TO_PLACE

\* ------------------------------------------------------- claims on gameplay

\* The local player may act: Gameplay, its turn, no attack being resolved.
MayAct(s) ==
  s.gameState = "GAMEPLAY" /\ ~s.isResolvingAttack /\ s.currentPlayer = s.localPlayerRole

\* to is exactly one orthogonal step away from from.
OneStep(from, to) == Adjacent(CardPos(from), CardPos(to))

\* The edge of the tile to that faces the tile from, one step away.
FacingEdge(from, to) ==
  CASE to.gridX = from.gridX + 1 -> "left"
    [] to.gridX = from.gridX - 1 -> "right"
    [] to.gridY = from.gridY + 1 -> "top"
    [] to.gridY = from.gridY - 1 -> "bottom"

FacingType(from, to) == to.terrainData.terrainData[FacingEdge(from, to)]

DefenseBonus(type) == IF type = "Forest" THEN 1 ELSE 0

\* The attacker's value is strictly greater than the defender's defense plus the bonus
\* of the defender's edge facing the attacker.
AttackerStronger(attacker, defender) ==
  attacker.unitData.stats.attack
    > defender.unitData.stats.defense + DefenseBonus(FacingType(attacker, defender))

\* The click of peer state s on its card j, with a unit selected, is an attack that is
\* to be resolved: the target is one step away, holds an enemy unit and the selected
\* unit may cross the facing edge.
AttackDue(s, j) ==
  LET attacker == s.board[s.selectedCardIndex]
      target == s.board[j]
  IN /\ OneStep(attacker, target)
     /\ target.unitData # NoUnit
     /\ target.owner # s.currentPlayer
     /\ FacingType(attacker, target) \in attacker.unitData.canTraverse

\* The rule of combat, for the click of peer state s on its card j.
CombatRule(s, j) ==
  LET attacker == s.board[s.selectedCardIndex]
      target == s.board[j]
      c == handleCardClick(Ctx(s), target.id)
  IN /\ c.sched # << >> <=> AttackDue(s, j)
     /\ c.sched # << >> =>
          LET result == c.sched[1] IN
          /\ Len(c.sched) = 1
          /\ c.out[Len(c.out)] = [type |-> "attackResult", payload |-> result]
          /\ result.attackerMoved <=> AttackerStronger(attacker, target)
          /\ result.winnerCardId =
               IF AttackerStronger(attacker, target) THEN attacker.id ELSE target.id
          /\ result.loserCardId =
               IF AttackerStronger(attacker, target) THEN target.id ELSE attacker.id

\* C13 (amended): an attack that passes the terrain gate is won by the attacker if and
\* only if its attack value is strictly greater than the defender's defense plus the
\* bonus of the defender's edge facing the attacker (1 for Forest, 0 for Plains and
\* Mountain); on equality the defender wins.  An attack across an edge the unit may
\* not cross is not resolved at all.
C13_StrictlyGreaterWins ==
  \A p \in Peers : \A j \in 1..Len(peers[p].board) :
    (MayAct(peers[p]) /\ peers[p].selectedCardIndex \notin {NoIndex, j})
      => CombatRule(peers[p], j)

\* C13 (as stated): the same rule, with the example: a Tank (attack 4) that attacks an
\* Infantry (defense 3) across a Forest edge is resolved as a tie won by the defender.
C13_TankTieExample ==
  \A p \in Peers : \A j \in 1..Len(peers[p].board) :
    LET s == peers[p] IN
    (MayAct(s) /\ s.selectedCardIndex \notin {NoIndex, j})
      => /\ CombatRule(s, j)
         /\ (/\ s.board[s.selectedCardIndex].unitData.unitName = "Tank"
             /\ OneStep(s.board[s.selectedCardIndex], s.board[j])
             /\ s.board[j].unitData # NoUnit
             /\ s.board[j].unitData.unitName = "Infantry"
             /\ s.board[j].owner # s.currentPlayer
             /\ FacingType(s.board[s.selectedCardIndex], s.board[j]) = "Forest")
              => LET c == handleCardClick(Ctx(s), s.board[j].id)
                 IN c.sched # << >> /\ ~c.sched[1].attackerMoved

\* The card of peer state s with the given id.
CardById(s, id) == s.board[CHOOSE i \in 1..Len(s.board) : s.board[i].id = id]

\* A tie has been resolved for the defender: the attack value equals the defense plus
\* the Forest bonus of the facing edge.
C13_Witness ==
  \E p \in Peers :
    /\ timers[p] # << >>
    /\ LET result == Head(timers[p])
           attacker == CardById(peers[p], result.loserCardId)
           defender == CardById(peers[p], result.winnerCardId)
       IN /\ ~result.attackerMoved
          /\ FacingType(attacker, defender) = "Forest"
          /\ attacker.unitData.stats.attack = defender.unitData.stats.defense + 1

\* C14: for a click on a target with a unit selected, the target is accepted as
\* adjacent exactly if it is one orthogonal step away; the entry edge is then the
\* target's edge facing the selected unit (left when moving right, right when moving
\* left, top when moving down, bottom when moving up): the traversal check passes
\* exactly if the unit may cross the type of that edge, and an attack is decided with
\* the bonus of that edge.
C14_EntryEdgeFacesActor ==
  \A p \in Peers : \A j \in 1..Len(peers[p].board) :
    LET s == peers[p] IN
    (MayAct(s) /\ s.selectedCardIndex \notin {NoIndex, j})
      => LET attacker == s.board[s.selectedCardIndex]
             target == s.board[j]
             c == handleCardClick(Ctx(s), target.id)
         IN IF ~OneStep(attacker, target)
            THEN /\ getDirectionInfo(attacker, target) = NoDirection
                 /\ ClickEffectFree(s, c)
                 /\ c.s.messageLog = "Target is not adjacent."
            ELSE /\ getDirectionInfo(attacker, target).opposite = FacingEdge(attacker, target)
                 /\ IF FacingType(attacker, target) \notin attacker.unitData.canTraverse
                    THEN /\ ClickEffectFree(s, c)
                         /\ c.s.messageLog =
                              "Unit cannot enter via " \o FacingType(attacker, target)
                                \o " (" \o FacingEdge(attacker, target) \o " edge of target)."
                    ELSE /\ c.s.messageLog # "Target is not adjacent."
                         /\ target.owner # s.currentPlayer => c.out # << >>
                         /\ c.sched # << >> =>
                              (c.sched[1].attackerMoved <=> AttackerStronger(attacker, target))

\* A unit has just moved right onto a tile whose left edge it may cross and whose
\* right edge it may not; the move is on its way to the opponent.
C14_Witness ==
  \E p \in Peers :
    /\ chan[Other(p)] # << >>
    /\ LET msg == chan[Other(p)][Len(chan[Other(p)])] IN
       /\ msg.type = "move"
       /\ LET from == CardById(peers[p], msg.payload.attackerCardId)
              to == CardById(peers[p], msg.payload.targetCardId)
          IN /\ to.gridX = from.gridX + 1
             /\ to.unitData # NoUnit /\ from.unitData = NoUnit
             /\ to.terrainData.terrainData.left \in to.unitData.canTraverse
             /\ to.terrainData.terrainData.right \notin to.unitData.canTraverse

PlainsOnlyUnits == {"Mobile Command", "Tank", "Artillery"}

\* The selected unit of peer state s may not cross the edge by which it would enter
\* its card j, one step away.
TerrainBlocked(s, j) ==
  LET attacker == s.board[s.selectedCardIndex]
      target == s.board[j]
  IN /\ OneStep(attacker, target)
     /\ \/ FacingType(attacker, target) \notin attacker.unitData.canTraverse
        \/ /\ attacker.unitData.unitName \in PlainsOnlyUnits
           /\ FacingType(attacker, target) \in {"Forest", "Mountain"}

\* C15: a click that would take the selected unit across an edge whose type is not
\* among its traversable types (a Mobile Command, Tank or Artillery across Forest or
\* Mountain), onto an empty tile or against an enemy unit, leaves the board, the
\* selection, the turn and the defeated units unchanged, sends no message and
\* schedules no combat result.
C15_TerrainGate ==
  \A p \in Peers : \A j \in 1..Len(peers[p].board) :
    LET s == peers[p] IN
    (MayAct(s) /\ s.selectedCardIndex \notin {NoIndex, j} /\ TerrainBlocked(s, j))
      => ClickEffectFree(s, handleCardClick(Ctx(s), s.board[j].id))

\* The local player has selected a unit that crosses Plains only; next to it are an
\* enemy unit behind a Forest or Mountain edge and an empty tile behind one, and the
\* click on either is answered with the message that the unit cannot enter.
C15_Witness ==
  \E p \in Peers :
    LET s == peers[p] IN
    /\ MayAct(s) /\ s.selectedCardIndex # NoIndex
    /\ s.board[s.selectedCardIndex].unitData.unitName \in PlainsOnlyUnits
    /\ \E j, k \in 1..Len(s.board) :
         /\ j # s.selectedCardIndex /\ k # s.selectedCardIndex
         /\ TerrainBlocked(s, j) /\ TerrainBlocked(s, k)
         /\ s.board[j].unitData # NoUnit /\ s.board[j].owner # s.currentPlayer
         /\ s.board[k].unitData = NoUnit
         /\ handleCardClick(Ctx(s), s.board[j].id).s.messageLog
              = "Unit cannot enter via " \o FacingType(s.board[s.selectedCardIndex], s.board[j])
                  \o " (" \o FacingEdge(s.board[s.selectedCardIndex], s.board[j])
                  \o " edge of target)."
         /\ handleCardClick(Ctx(s), s.board[k].id).s.messageLog
              = "Unit cannot enter via " \o FacingType(s.board[s.selectedCardIndex], s.board[k])
                  \o " (" \o FacingEdge(s.board[s.selectedCardIndex], s.board[k])
                  \o " edge of target)."

\* The click of peer state s on its card j is to be rejected: with no selection the
\* card is empty or not the current player's; with a unit selected the card is not one
\* step away or holds a unit of the current player.
GameplayRejected(s, j) ==
  IF s.selectedCardIndex = NoIndex
  THEN s.board[j].unitData = NoUnit \/ s.board[j].owner # s.currentPlayer
  ELSE /\ j # s.selectedCardIndex
       /\ \/ ~OneStep(s.board[s.selectedCardIndex], s.board[j])
          \/ s.board[j].unitData # NoUnit /\ s.board[j].owner = s.currentPlayer

\* C16: a rejected click (an opponent's or an empty tile with nothing selected; with a
\* unit selected, a target that is not adjacent or that holds a unit of the same
\* owner) leaves the board, the selection, the current player, the defeated units and
\* the phase unchanged, sends no message and schedules no combat result.
C16_RejectedClick ==
  \A p \in Peers : \A j \in 1..Len(peers[p].board) :
    GameplayRejected(peers[p], j)
      => ClickEffectFree(peers[p], handleCardClick(Ctx(peers[p]), peers[p].board[j].id))

\* The local player has a unit selected; a unit of its own is one step away, an enemy
\* unit is out of reach, and the clicks on them are answered with the two messages of
\* rejection.
C16_Witness ==
  \E p \in Peers :
    LET s == peers[p] IN
    /\ MayAct(s) /\ s.selectedCardIndex # NoIndex
    /\ \E j, k \in 1..Len(s.board) :
         /\ GameplayRejected(s, j) /\ GameplayRejected(s, k)
         /\ OneStep(s.board[s.selectedCardIndex], s.board[j])
         /\ s.board[j].owner = s.currentPlayer
         /\ handleCardClick(Ctx(s), s.board[j].id).s.messageLog
              = "Cannot move/attack your own unit."
         /\ s.board[k].unitData # NoUnit /\ s.board[k].owner # s.currentPlayer
         /\ handleCardClick(Ctx(s), s.board[k].id).s.messageLog = "Target is not adjacent."

IndexOfId(s, id) == CHOOSE i \in 1..Len(s.board) : s.board[i].id = id

\* Tile i is the same tile in s and t: id, position and terrain.
SamePlace(s, t, i) ==
  /\ t.board[i].id = s.board[i].id
  /\ t.board[i].gridX = s.board[i].gridX
  /\ t.board[i].gridY = s.board[i].gridY
  /\ t.board[i].terrainData = s.board[i].terrainData

\* From peer state s to t the unit on the card data.attackerCardId has been
\* transferred to the card data.targetCardId, as a unit of mover.
MoveApplied(s, t, data, mover) ==
  LET from == IndexOfId(s, data.attackerCardId)
      to == IndexOfId(s, data.targetCardId)
  IN /\ Len(t.board) = Len(s.board)
     /\ s.board[from].unitData # NoUnit
     /\ t.board[to].unitData = s.board[from].unitData
     /\ t.board[to].owner = mover
     /\ s.board[from].owner = mover
     /\ ~t.board[to].hidden
     /\ t.board[from].unitData = NoUnit
     /\ t.board[from].owner = NoOwner
     /\ SamePlace(s, t, from) /\ SamePlace(s, t, to)
     /\ \A i \in 1..Len(s.board) : i \notin {from, to} => t.board[i] = s.board[i]
     /\ t.defeatedUnits = s.defeatedUnits

\* Peer p has sent exactly one message in this step, of the given type.
SendsOne(p, type) ==
  /\ Len(chan'[Other(p)]) = Len(chan[Other(p)]) + 1
  /\ chan'[Other(p)][Len(chan'[Other(p)])].type = type

\* C17: a move into an adjacent empty tile transfers the unit, on the peer that makes
\* it and on the peer that receives it: afterwards the target tile holds the moved
\* unit with the mover's owner and is revealed, the origin tile has no unit and no
\* owner, id, position and terrain of both tiles and every other tile are unchanged.
C17_MoveTransfersUnit ==
  [][\A p \in Peers :
       /\ SendsOne(p, "move")
            => LET data == chan'[Other(p)][Len(chan'[Other(p)])].payload
                   s == peers[p]
               IN /\ s.board[IndexOfId(s, data.targetCardId)].unitData = NoUnit
                  /\ OneStep(s.board[IndexOfId(s, data.attackerCardId)],
                             s.board[IndexOfId(s, data.targetCardId)])
                  /\ MoveApplied(s, peers'[p], data, p)
       /\ InboundStep(p, "move")
            => MoveApplied(peers[p], peers'[p], Head(chan[p]).payload, Other(p))]_vars

\* Peer p runs the callback it has scheduled for its own attack.
DeferredStep(p) == timers[p] # << >> /\ timers'[p] = Tail(timers[p])

\* From peer state s to t the outcome of the attack described by result has been
\* applied.
AttackApplied(s, t, result) ==
  LET attacker == IndexOfId(s, IF result.attackerMoved THEN result.winnerCardId
                                ELSE result.loserCardId)
      defender == IndexOfId(s, IF result.attackerMoved THEN result.loserCardId
                                ELSE result.winnerCardId)
  IN /\ Len(t.board) = Len(s.board)
     /\ t.board[attacker].unitData = NoUnit
     /\ t.board[attacker].owner = NoOwner
     /\ Len(t.defeatedUnits) = Len(s.defeatedUnits) + 1
     /\ SubSeq(t.defeatedUnits, 1, Len(s.defeatedUnits)) = s.defeatedUnits
     /\ IF result.attackerMoved
        THEN /\ t.board[defender].unitData = s.board[attacker].unitData
             /\ t.board[defender].owner = s.board[attacker].owner
             /\ t.defeatedUnits[Len(t.defeatedUnits)].unitData = s.board[defender].unitData
             /\ t.defeatedUnits[Len(t.defeatedUnits)].owner = s.board[defender].owner
        ELSE /\ t.board[defender].unitData = s.board[defender].unitData
             /\ t.board[defender].owner = s.board[defender].owner
             /\ t.defeatedUnits[Len(t.defeatedUnits)].unitData = s.board[attacker].unitData
             /\ t.defeatedUnits[Len(t.defeatedUnits)].owner = s.board[attacker].owner
     /\ ~t.board[defender].hidden
     /\ t.board[defender].unitData # NoUnit

\* C18: when a peer applies the outcome of an attack (the attacker by its deferred
\* callback, the opponent on receiving attackResult): if the attacker has won, the
\* defender's tile takes the attacker's unit and owner, the attacker's tile becomes
\* empty and the defender's former unit is appended to the defeated units; if the
\* defender has won, the attacker's tile becomes empty, the attacker's unit is
\* appended to the defeated units and the defender's tile keeps its unit and owner
\* and is revealed.
C18_AttackOutcome ==
  [][\A p \in Peers :
       /\ DeferredStep(p) => AttackApplied(peers[p], peers'[p], Head(timers[p]))
       /\ InboundStep(p, "attackResult")
            => AttackApplied(peers[p], peers'[p], Head(chan[p]).payload)]_vars

CommandName == "Mobile Command"

\* The outcome the click of peer state s on its card j computes, if it is an attack.
Resolved(s, j) == handleCardClick(Ctx(s), s.board[j].id).sched

CaptureMessage(winner) ==
  "Player " \o ToString(winner) \o " wins by capturing the Mobile Command!"

\* C19: whenever the unit defeated in a combat is a Mobile Command, as the defender
\* or as a losing attacker, and whatever units are left on either side, the outcome
\* computed is a game over won by the owner of the other unit, the turn does not
\* pass, and each peer that applies the outcome (the attacker by its deferred
\* callback, the opponent on receiving attackResult) enters GameOver; once nothing is
\* in flight, both peers are in GameOver or neither is.
C19_CommandCaptureEndsGame ==
  [][/\ \A p \in Peers : \A j \in 1..Len(peers[p].board) :
          LET s == peers[p] IN
          (MayAct(s) /\ s.selectedCardIndex \notin {NoIndex, j} /\ Resolved(s, j) # << >>)
            => LET result == Resolved(s, j)[1]
                   loser == CardById(s, result.loserCardId)
                   winner == CardById(s, result.winnerCardId)
               IN loser.unitData.unitName = CommandName
                    => /\ result.gameOver
                       /\ winner.owner = Other(loser.owner)
                       /\ result.winMessage = CaptureMessage(winner.owner)
                       /\ result.nextPlayer = s.currentPlayer
                       /\ result.defeatedUnitData.unitData = loser.unitData
     /\ \A p \in Peers :
          /\ (DeferredStep(p)
               /\ Head(timers[p]).defeatedUnitData.unitData.unitName = CommandName)
               => peers'[p].gameState = "GAMEOVER"
          /\ (InboundStep(p, "attackResult")
               /\ Head(chan[p]).payload.defeatedUnitData.unitData.unitName = CommandName)
               => peers'[p].gameState = "GAMEOVER"
     /\ Quiescent'
          => (peers'[1].gameState = "GAMEOVER" <=> peers'[2].gameState = "GAMEOVER")]_vars

\* A Mobile Command has been defeated while its owner had another unit on the board:
\* it is the last of the defeated units on both peers, both are in GameOver, nothing
\* is in flight.
C19_Witness ==
  /\ Quiescent
  /\ \A p \in Peers :
       LET s == peers[p] IN
       /\ s.gameState = "GAMEOVER"
       /\ s.defeatedUnits # << >>
       /\ s.defeatedUnits[Len(s.defeatedUnits)].unitData.unitName = CommandName
       /\ \E i \in 1..Len(s.board) :
            s.board[i].owner = s.defeatedUnits[Len(s.defeatedUnits)].owner

EliminationMessage(winner) ==
  "Player " \o ToString(winner) \o " wins by eliminating all other movable units!"

\* The units other than a Mobile Command that owner has on the board of s, the card
\* with id except left out.
OtherUnits(s, owner, except) ==
  {i \in 1..Len(s.board) :
     /\ s.board[i].id # except
     /\ s.board[i].owner = owner
     /\ s.board[i].unitData # NoUnit
     /\ s.board[i].unitData.unitName # CommandName}

CommandOnBoard(s, owner) ==
  \E i \in 1..Len(s.board) :
    /\ s.board[i].owner = owner
    /\ s.board[i].unitData # NoUnit
    /\ s.board[i].unitData.unitName = CommandName

\* C20: when a combat defeats a unit that is no Mobile Command, the outcome is a game
\* over exactly if its owner has, the defeated unit left out, no other such unit on
\* the board and still has its Mobile Command there; the game is then won by the
\* owner of the winning unit by elimination; otherwise the game continues and the
\* turn passes.  When the defeated unit is a Mobile Command the game is never won by
\* elimination.
C20_EliminationEndsGame ==
  \A p \in Peers : \A j \in 1..Len(peers[p].board) :
    LET s == peers[p] IN
    (MayAct(s) /\ s.selectedCardIndex \notin {NoIndex, j} /\ Resolved(s, j) # << >>)
      => LET result == Resolved(s, j)[1]
             loser == CardById(s, result.loserCardId)
             winner == CardById(s, result.winnerCardId)
             eliminated == /\ OtherUnits(s, loser.owner, loser.id) = {}
                           /\ CommandOnBoard(s, loser.owner)
         IN IF loser.unitData.unitName = CommandName
            THEN result.winMessage # EliminationMessage(winner.owner)
            ELSE /\ result.gameOver <=> eliminated
                 /\ eliminated
                      => /\ result.winMessage = EliminationMessage(winner.owner)
                         /\ winner.owner = Other(loser.owner)
                         /\ result.nextPlayer = s.currentPlayer
                 /\ ~eliminated
                      => /\ result.winMessage = ""
                         /\ result.nextPlayer = Other(s.currentPlayer)

\* A player has lost its last unit other than the Mobile Command, which is still on
\* the board: both peers are in GameOver, nothing is in flight.
C20_Witness ==
  /\ Quiescent
  /\ \A p \in Peers :
       LET s == peers[p]
           last == s.defeatedUnits[Len(s.defeatedUnits)]
       IN /\ s.gameState = "GAMEOVER"
          /\ s.defeatedUnits # << >>
          /\ last.unitData.unitName # CommandName
          /\ OtherUnits(s, last.owner, -1) = {}
          /\ CommandOnBoard(s, last.owner)

\* C21: every move and every attack that does not end the game, once applied, leaves
\* the player who did not act as the current player, on the peer that acted and on the
\* peer that receives it, whether the attacker has won or lost; applying an attack
\* that ends the game does not change the current player; once nothing is in flight
\* the two peers of a game under way have the same current player.
C21_TurnPasses ==
  [][\A p \in Peers :
       /\ SendsOne(p, "move") => peers'[p].currentPlayer = Other(p)
       /\ InboundStep(p, "move") => peers'[p].currentPlayer = p
       /\ DeferredStep(p)
            => peers'[p].currentPlayer =
                 IF Head(timers[p]).gameOver THEN peers[p].currentPlayer ELSE Other(p)
       /\ InboundStep(p, "attackResult")
            => peers'[p].currentPlayer =
                 IF Head(chan[p]).payload.gameOver THEN peers[p].currentPlayer ELSE p
       /\ (Quiescent' /\ \A q \in Peers : peers'[q].gameState = "GAMEPLAY")
            => peers'[1].currentPlayer = peers'[2].currentPlayer]_vars

\* C22: a click on the selected card clears the selection and changes nothing else:
\* not the board, the current player, the defeated units or the phase; it sends no
\* message and schedules nothing.  The selected card is revealed and is so after the
\* click, and a reveal message that was sent is applied by the peer that receives it,
\* to the card it names and to no other, whatever the sender has done since.
C22_DeselectIsLocal ==
  [][\A p \in Peers :
       /\ \A j \in 1..Len(peers[p].board) :
            LET s == peers[p]
                c == handleCardClick(Ctx(s), s.board[j].id)
            IN (MayAct(s) /\ s.selectedCardIndex = j)
                 => /\ c.s.selectedCardIndex = NoIndex
                    /\ c.s.board = s.board
                    /\ c.s.currentPlayer = s.currentPlayer
                    /\ c.s.defeatedUnits = s.defeatedUnits
                    /\ c.s.gameState = s.gameState
                    /\ c.s.isResolvingAttack = s.isResolvingAttack
                    /\ c.out = << >>
                    /\ c.sched = << >>
                    /\ ~s.board[j].hidden
                    /\ s.board[j].unitData # NoUnit
       /\ InboundStep(p, "reveal")
            => /\ Len(peers'[p].board) = Len(peers[p].board)
               /\ \A i \in 1..Len(peers[p].board) :
                    IF peers[p].board[i].id = Head(chan[p]).payload.cardId
                    THEN peers'[p].board[i] = [peers[p].board[i] EXCEPT !.hidden = FALSE]
                    ELSE peers'[p].board[i] = peers[p].board[i]]_vars

\* A player has selected a hidden unit and deselected it: the log says so, nothing is
\* selected, nothing is in flight, no move or attack has been made, and the unit is
\* revealed on both peers.
C22_Witness ==
  \E p \in Peers :
    /\ peers[p].messageLog = "Card deselected."
    /\ peers[p].selectedCardIndex = NoIndex
    /\ MayAct(peers[p])
    /\ Quiescent
    /\ scope.turns = MaxTurnsLog
    /\ \E i \in 1..Len(peers[p].board) :
         /\ peers[p].board[i].unitData # NoUnit
         /\ ~peers[p].board[i].hidden
         /\ ~peers[Other(p)].board[i].hidden

\* The messages peer p has sent in this step, in order.
SentNow(p) ==
  IF Len(chan'[Other(p)]) > Len(chan[Other(p)])
  THEN SubSeq(chan'[Other(p)], Len(chan[Other(p)]) + 1, Len(chan'[Other(p)]))
  ELSE << >>

SetupsSent(p) == SelectSeq(SentNow(p), LAMBDA m : m.type = "setup")

\* The connection opens at peer p in this step.
OpenStep(p) == ~peers[p].connOpen /\ peers'[p].connOpen

OwnedBy(pool, player) == \A i \in 1..Len(pool) : pool[i].imagePath[2] = player

\* The rule of the setup message for one step; resetAllowed says whether a reset click
\* of player 1 may send a setup as the opening of the connection does.
SetupRule(resetAllowed) ==
  \A p \in Peers :
    /\ Len(SetupsSent(p)) <= 1
    /\ SetupsSent(p) # << >>
         => LET setupData == SetupsSent(p)[1].payload IN
            /\ peers[p].localPlayerRole = 1
            /\ OpenStep(p) \/ (resetAllowed /\ ResetStep(p))
            /\ SentNow(p)[Len(SentNow(p))].type = "setup"
            /\ Len(setupData.player2Units) = PairsPerPlayer
            /\ Len(setupData.player2Terrains) = PairsPerPlayer
            /\ OwnedBy(setupData.player2Units, 2)
            /\ OwnedBy(setupData.player2Terrains, 2)
            /\ peers'[p].gameState = "PLACEMENT"
            /\ peers'[p].currentPlayer = 1
            /\ peers'[p].board = << >>
    /\ (OpenStep(p) /\ peers[p].localPlayerRole = 1)
         => /\ [i \in 1..Len(SentNow(p)) |-> SentNow(p)[i].type] = <<"displayName", "setup">>
            /\ \A q \in Peers : \A i \in 1..Len(chan[q]) : chan[q][i].type # "placement"
            /\ \A q \in Peers : peers[q].board = << >>
    /\ (OpenStep(p) /\ peers[p].localPlayerRole # 1) => SetupsSent(p) = << >>
    /\ InboundStep(p, "setup")
         => LET setupData == Head(chan[p]).payload IN
            /\ peers[p].localPlayerRole = 2
            /\ peers'[p].playerAvailableUnits = << << >>, setupData.player2Units>>
            /\ peers'[p].playerAvailableTerrains = << << >>, setupData.player2Terrains>>
            /\ peers'[p].gameState = "PLACEMENT"
            /\ peers'[p].currentPlayer = 1
            /\ peers'[p].board = << >>
            /\ peers'[p].placedCardPairCount = 0

ProtocolError(s, m) ==
  \/ m.type = "reveal" /\ findCardIndexById(s, m.payload.cardId) = NoIndex
  \/ m.type = "move" /\ \/ findCardIndexById(s, m.payload.attackerCardId) = NoIndex
                        \/ findCardIndexById(s, m.payload.targetCardId) = NoIndex
  \/ m.type = "attackResult" /\ \/ findCardIndexById(s, m.payload.winnerCardId) = NoIndex
                                \/ findCardIndexById(s, m.payload.loserCardId) = NoIndex
  \/ m.type = "setup" /\ s.gameState # "CONNECTING"
  \/ m.type = "placement" /\ s.gameState # "PLACEMENT"
  \/ m.type \in {"reveal", "move", "attackResult"} /\ s.gameState # "GAMEPLAY"

\* C24: an inbound message that is a protocol error is not applied to the board, and
\* it leaves the peer in a phase that takes no placement, move or attack.
C24_ProtocolErrorIsFatal ==
  [][\A p \in Peers :
       (/\ chan[p] # << >>
        /\ chan'[p] = Tail(chan[p])
        /\ ProtocolError(peers[p], Head(chan[p])))
         => /\ peers'[p].board = peers[p].board
            /\ peers'[p].gameState \notin {"PLACEMENT", "GAMEPLAY"}]_vars

\* The peer state s after it has received the messages msgs, in order.
RECURSIVE Receive(_, _)
Receive(s, msgs) ==
  IF msgs = << >> THEN s
  ELSE Receive(handleReceivedData(Ctx(s), Head(msgs)).s, Tail(msgs))

\* Owner, unit and hidden flag of the card with the given id.
TileState(s, id) ==
  [owner |-> CardById(s, id).owner,
   unitData |-> CardById(s, id).unitData,
   hidden |-> CardById(s, id).hidden]

\* C25: when a peer attacks while the opponent's board is the same as its own, the
\* opponent, applying the messages of the attack as they come, and the attacker,
\* applying the outcome to its own board by its callback, end with the same owner,
\* unit and hidden flag on the winner's and on the loser's tile (with the same board
\* altogether), the same phase and the same current player; each appends to its
\* defeated units the one entry the message carries.
C25_ReceiverMatchesAttacker ==
  \A p \in Peers : \A j \in 1..Len(peers[p].board) :
    LET s == peers[p]
        r == peers[Other(p)]
        c == handleCardClick(Ctx(s), s.board[j].id)
    IN (/\ MayAct(s) /\ c.sched # << >>
        /\ r.board = s.board)
         => LET data == c.sched[1]
                own == applyAttackResult(Ctx(c.s), data).s
                recv == Receive(r, c.out)
            IN /\ TileState(recv, data.winnerCardId) = TileState(own, data.winnerCardId)
               /\ TileState(recv, data.loserCardId) = TileState(own, data.loserCardId)
               /\ recv.defeatedUnits = Append(r.defeatedUnits, data.defeatedUnitData)
               /\ own.defeatedUnits = Append(s.defeatedUnits, data.defeatedUnitData)
               /\ recv.gameState = own.gameState
               /\ recv.currentPlayer = own.currentPlayer
               /\ recv.board = own.board

\* An attack made during the run has been applied by both peers, which agree on the
\* whole state; nothing is in flight.
C25_Witness ==
  /\ Quiescent
  /\ View(1) = View(2)
  /\ scope.turns < MaxTurnsPlay
  /\ Len(peers[1].defeatedUnits) > 2
  /\ peers[1].board = peers[2].board

\* The card ids of the board of s are pairwise distinct and count from 0 in the order
\* of placement.
IdsInOrder(s) == \A i \in 1..Len(s.board) : s.board[i].id = i - 1

IdsDistinct(s) ==
  \A i, j \in 1..Len(s.board) : i # j => s.board[i].id # s.board[j].id

\* A cell that holds a card on both peers holds a card with the same id on both.
SameIdAtPosition(s, r) ==
  \A i \in 1..Len(s.board) : \A j \in 1..Len(r.board) :
    CardPos(s.board[i]) = CardPos(r.board[j]) => s.board[i].id = r.board[j].id

\* C26: the peer that places a card gives it its nextCardId, sends that id with the
\* placement and puts the card on its board under it; the peer that receives the
\* placement puts the card on its board under the id received.  On each peer the ids
\* of the cards are pairwise distinct and are 0, 1, 2, ... in the order of placement,
\* and a cell holds a card with the same id on both peers.
C26_CardIds ==
  [][/\ \A p \in Peers :
          /\ SendsOne(p, "placement")
               => LET data == chan'[Other(p)][Len(chan'[Other(p)])].payload IN
                  /\ data.cardId = peers[p].nextCardId
                  /\ peers'[p].board = Append(peers[p].board,
                                              peers'[p].board[Len(peers'[p].board)])
                  /\ peers'[p].board[Len(peers'[p].board)].id = data.cardId
          /\ InboundStep(p, "placement")
               => /\ peers'[p].board = Append(peers[p].board,
                                              peers'[p].board[Len(peers'[p].board)])
                  /\ peers'[p].board[Len(peers'[p].board)].id = Head(chan[p]).payload.cardId
          /\ IdsDistinct(peers'[p])
          /\ IdsInOrder(peers'[p])
     /\ SameIdAtPosition(peers'[1], peers'[2])]_vars

\* The cards of s with a hidden unit that the handler, ending in state t, has made
\* visible where they are.
MadeVisible(s, t) ==
  {i \in 1..Len(s.board) :
     /\ s.board[i].hidden /\ s.board[i].unitData # NoUnit
     /\ ~t.board[i].hidden /\ t.board[i].unitData = s.board[i].unitData}

\* The card of the defender in an attack outcome.
DefenderId(result) ==
  IF result.attackerMoved THEN result.loserCardId ELSE result.winnerCardId

\* C27: a click that makes a hidden unit visible, by selecting it or by attacking it,
\* makes one unit visible and sends exactly one reveal message, with the id of that
\* card; a click that makes no hidden unit visible sends no reveal; an attack sends its
\* attackResult last, after the reveal.  The peer that receives an attackResult has
\* the defender's tile revealed before it applies the outcome.
C27_RevealSentOnce ==
  [][\A p \in Peers :
       /\ \A j \in 1..Len(peers[p].board) :
            LET s == peers[p]
                c == handleCardClick(Ctx(s), s.board[j].id)
                reveals == SelectSeq(c.out, LAMBDA m : m.type = "reveal")
                visible == MadeVisible(s, c.s)
            IN /\ Len(reveals) = Cardinality(visible)
               /\ Len(reveals) <= 1
               /\ \A i \in visible :
                    /\ reveals[1].payload.cardId = s.board[i].id
                    /\ i = j
                    /\ IF s.selectedCardIndex = NoIndex
                       THEN c.s.selectedCardIndex = j /\ c.sched = << >>
                       ELSE c.sched # << >> /\ DefenderId(c.sched[1]) = s.board[j].id
               /\ c.sched # << >>
                    => /\ c.out[Len(c.out)].type = "attackResult"
                       /\ Len(c.out) = 1 + Len(reveals)
                       /\ c.out[Len(c.out)].payload = c.sched[1]
                       /\ ~c.s.board[j].hidden
       /\ InboundStep(p, "attackResult")
            => ~CardById(peers[p], DefenderId(Head(chan[p]).payload)).hidden]_vars

\* A hidden unit has been attacked: the reveal of the defender's card and, after it,
\* the attackResult are on their way to the opponent.
C27_Witness ==
  \E p \in Peers :
    /\ Len(chan[p]) >= 2
    /\ chan[p][Len(chan[p]) - 1].type = "reveal"
    /\ chan[p][Len(chan[p])].type = "attackResult"
    /\ chan[p][Len(chan[p]) - 1].payload.cardId = DefenderId(chan[p][Len(chan[p])].payload)
    /\ CardById(peers[p], DefenderId(chan[p][Len(chan[p])].payload)).hidden

Playing(s) == s.gameState \in {"GAMEPLAY", "GAMEOVER"}

\* C28: within a game (no step that is a reset of player 1 or the receipt of a setup)
\* a card that is on the board stays on the board with its id, its position and its
\* terrain; a peer in Gameplay or GameOver has TOTAL_CARD_PAIRS_TO_PLACE tiles on its
\* board, and no step between two such states adds or removes a tile.
C28_TilesFixed ==
  [][\A p \in Peers :
       LET s == peers[p]
           t == peers'[p]
       IN /\ ~(ResetStep(p) \/ InboundStep(p, "setup"))
               => /\ Len(t.board) >= Len(s.board)
                  /\ \A i \in 1..Len(s.board) : SamePlace(s, t, i)
          /\ Playing(t) => Len(t.board) = TOTAL_CARD_PAIRS_TO_PLACE
          /\ (Playing(s) /\ Playing(t)) => Len(t.board) = Len(s.board)]_vars

\* The unit instances of peer state s: those on its tiles and those among its defeated
\* units, each named by owner, kind and instance number.
UnitsOnBoard(s) ==
  {s.board[i].unitData.imagePath : i \in {k \in 1..Len(s.board) : s.board[k].unitData # NoUnit}}

UnitsDefeated(s) ==
  {s.defeatedUnits[i].unitData.imagePath : i \in 1..Len(s.defeatedUnits)}

\* Every unit instance of s is on one tile or is one entry of the defeated units.
EachUnitOnce(s) ==
  /\ \A i, j \in 1..Len(s.board) :
       (i # j /\ s.board[i].unitData # NoUnit) => s.board[i].unitData # s.board[j].unitData
  /\ \A i, j \in 1..Len(s.defeatedUnits) :
       i # j => s.defeatedUnits[i].unitData.imagePath # s.defeatedUnits[j].unitData.imagePath
  /\ UnitsOnBoard(s) \cap UnitsDefeated(s) = {}

\* C29: in Gameplay and GameOver the unit instances of a peer are those that were
\* placed, each on exactly one tile or exactly one entry of the defeated units: no step
\* loses, adds or duplicates one.  The application of an attack outcome appends one
\* entry, the defeated unit with its owner; a move appends none.
C29_UnitConservation ==
  [][\A p \in Peers :
       LET s == peers[p]
           t == peers'[p]
       IN /\ Playing(t)
               => /\ EachUnitOnce(t)
                  /\ Cardinality(UnitsOnBoard(t) \cup UnitsDefeated(t)) = TOTAL_CARD_PAIRS_TO_PLACE
          /\ (Playing(s) /\ Playing(t))
               => UnitsOnBoard(t) \cup UnitsDefeated(t) = UnitsOnBoard(s) \cup UnitsDefeated(s)
          /\ \A result \in (IF DeferredStep(p) THEN {Head(timers[p])} ELSE {})
                             \cup (IF InboundStep(p, "attackResult")
                                   THEN {Head(chan[p]).payload} ELSE {}) :
               /\ t.defeatedUnits =
                    Append(s.defeatedUnits, t.defeatedUnits[Len(t.defeatedUnits)])
               /\ t.defeatedUnits[Len(t.defeatedUnits)].unitData
                    = CardById(s, result.loserCardId).unitData
               /\ t.defeatedUnits[Len(t.defeatedUnits)].owner
                    = CardById(s, result.loserCardId).owner
          /\ (SendsOne(p, "move") \/ InboundStep(p, "move"))
               => t.defeatedUnits = s.defeatedUnits]_vars

\* C30: a peer holds no pool of the opponent: on the peer with role 1 the unit and
\* terrain pools of player 2 are empty, on the peer with role 2 those of player 1, in
\* every state; what a peer holds in its own pools are units and terrains of its own
\* player.
C30_OwnPoolOnly ==
  \A p \in Peers :
    LET s == peers[p] IN
    /\ s.playerAvailableUnits[Other(s.localPlayerRole)] = << >>
    /\ s.playerAvailableTerrains[Other(s.localPlayerRole)] = << >>
    /\ OwnedBy(s.playerAvailableUnits[s.localPlayerRole], s.localPlayerRole)
    /\ OwnedBy(s.playerAvailableTerrains[s.localPlayerRole], s.localPlayerRole)

\* Both peers are in Placement, each with units and terrains of its own left to place,
\* after player 1 has placed its first pair.
C30_Witness ==
  /\ \A p \in Peers :
       /\ peers[p].gameState = "PLACEMENT"
       /\ peers[p].playerAvailableUnits[p] # << >>
       /\ peers[p].playerAvailableTerrains[p] # << >>
       /\ Len(peers[p].board) = 1
  /\ Len(peers[1].playerAvailableUnits[1]) = PairsPerPlayer - 1
  /\ Len(peers[2].playerAvailableUnits[2]) = PairsPerPlayer

\* ---------------------------------------------------------------------- C31

Count(seq, x) == Cardinality({i \in 1..Len(seq) : seq[i] = x})

SamePermutation(list, source) ==
  /\ Len(list) = Len(source)
  /\ Range(list) = Range(source)
  /\ \A x \in Range(source) : Count(list, x) = Count(source, x)

PoolQuantity ==
  ("Mobile Command" :> 1) @@ ("Tank" :> 2) @@ ("Infantry" :> 3) @@
  ("Artillery" :> 1) @@ ("Special Ops" :> 1)

UnitsOfKind(units, type) == {i \in 1..Len(units) : units[i].unitName = type}

\* C31: the pool generated for a player is a permutation of the fixed multiset: 8
\* units (1 Mobile Command, 2 Tank, 3 Infantry, 1 Artillery, 1 Special Ops) whose
\* instance numbers are 1..quantity, each once per kind, and 8 terrains holding each
\* of the 8 fixed layouts exactly once; the shuffle drops, duplicates and alters no
\* element of the list it is given.
C31_PoolIsPermutation ==
  /\ probe.unitsDealt =>
       /\ Len(probe.units) = 8
       /\ \A type \in DOMAIN PoolQuantity :
            /\ Cardinality(UnitsOfKind(probe.units, type)) = PoolQuantity[type]
            /\ {probe.units[i].instance : i \in UnitsOfKind(probe.units, type)}
                 = 1..PoolQuantity[type]
       /\ \A i \in 1..Len(probe.units) : probe.units[i].unitName \in DOMAIN PoolQuantity
       /\ SamePermutation(probe.units, unitObjects(probe.playerNum))
  /\ probe.terrainsDealt =>
       /\ Len(probe.terrains) = 8
       /\ \A n \in 1..Len(fixedTerrainCards) :
            Cardinality({i \in 1..Len(probe.terrains) :
                           probe.terrains[i].terrainData = fixedTerrainCards[n]}) = 1
       /\ \A i \in 1..Len(probe.terrains) :
            probe.terrains[i] =
              terrainObject(probe.playerNum, probe.terrains[i].terrainIndex)

\* Both lists of player 2 are dealt and neither is in the order it was built in.
C31_Witness ==
  /\ probe.unitsDealt /\ probe.terrainsDealt
  /\ probe.playerNum = 2
  /\ probe.units # unitObjects(2)
  /\ probe.units[1].unitName # "Mobile Command"
  /\ \E i \in 1..Len(probe.terrains) : probe.terrains[i].terrainIndex # i - 1

\* ---------------------------------------------------------------------- C32

FullLists ==
  /\ Len(probe.p1UnitsData) = PairsPerPlayer /\ Len(probe.p1TerrainsData) = PairsPerPlayer
  /\ Len(probe.p2UnitsData) = PairsPerPlayer /\ Len(probe.p2TerrainsData) = PairsPerPlayer

ActionPos(action) == <<action.gridX, action.gridY>>

\* C32: given a full list of units and of terrains for each player,
\* generateAutoPlacements never returns null and returns one action per pair to place;
\* the owners alternate 1, 2, 1, 2, ...; the first position is the origin; the
\* positions are pairwise distinct and each later one is orthogonally adjacent to an
\* earlier one; the card ids are startingCardId, startingCardId + 1, ... in order; the
\* i-th action of a player uses that player's i-th unit with that player's i-th terrain.
C32_AutoPlacements ==
  (probe.computed /\ FullLists) =>
    LET actions == probe.result.finalActions
        unitsOf(owner) == IF owner = 1 THEN probe.p1UnitsData ELSE probe.p2UnitsData
        terrainsOf(owner) ==
          IF owner = 1 THEN probe.p1TerrainsData ELSE probe.p2TerrainsData
    IN /\ ~probe.result.isNull
       /\ Len(actions) = TOTAL_CARD_PAIRS_TO_PLACE
       /\ \A n \in 1..Len(actions) :
            /\ actions[n].owner = ((n - 1) % 2) + 1
            /\ actions[n].cardId = probe.startingCardId + n - 1
            /\ actions[n].unitData = unitsOf(actions[n].owner)[(n + 1) \div 2]
            /\ actions[n].terrainData = terrainsOf(actions[n].owner)[(n + 1) \div 2]
            /\ n = 1 => ActionPos(actions[n]) = Origin
            /\ n > 1 => \E m \in 1..(n - 1) :
                          Adjacent(ActionPos(actions[m]), ActionPos(actions[n]))
            /\ \A m \in 1..(n - 1) : ActionPos(actions[m]) # ActionPos(actions[n])

\* A full call that starts from a card id other than 0 and whose cards do not lie in
\* one row nor in one column.
C32_Witness ==
  /\ probe.computed /\ FullLists /\ ~probe.result.isNull
  /\ probe.startingCardId > 0
  /\ Len(probe.result.finalActions) = TOTAL_CARD_PAIRS_TO_PLACE
  /\ \E n \in 1..Len(probe.result.finalActions) :
       probe.result.finalActions[n].gridY # START_GRID_COORD
  /\ \E n \in 1..Len(probe.result.finalActions) :
       probe.result.finalActions[n].gridX < START_GRID_COORD

\* ---------------------------------------------------------------------- C33

\* The peer may perform a turn action: the phase is Placement or Gameplay, the current
\* player is the local role and no attack is being resolved.
CanTakeTurn(s) ==
  /\ s.gameState \in {"PLACEMENT", "GAMEPLAY"}
  /\ s.currentPlayer = s.localPlayerRole
  /\ ~s.isResolvingAttack

\* C33: within one game, in no reachable state, messages in flight and deferred
\* attack results pending included, can both peers perform a turn action.
C33_TurnMutualExclusion == ~(\A p \in Peers : CanTakeTurn(peers[p]))

\* One peer has an attack of its own still to apply and would be the current player
\* but for isResolvingAttack, while the other peer has applied the result and may act.
C33_Witness ==
  \E p \in Peers :
    /\ timers[p] # << >>
    /\ peers[p].gameState = "GAMEPLAY"
    /\ peers[p].currentPlayer = peers[p].localPlayerRole
    /\ peers[p].isResolvingAttack
    /\ CanTakeTurn(peers[Other(p)])

\* ---------------------------------------------------------------------- C34

\* From peer state s to t the attack result data has been applied without error: its
\* entry is appended to the defeated units, the lock is released and the selection is
\* cleared.
AppliedOnce(s, t, data) ==
  /\ t.defeatedUnits = Append(s.defeatedUnits, data.defeatedUnitData)
  /\ ~t.isResolvingAttack
  /\ t.selectedCardIndex = NoIndex

\* A step in which no peer receives a message or runs a deferred callback, and in
\* which nothing is sent to peer p: a local event of peer p, or one of the other peer
\* that sends nothing.
LocalStep(p) ==
  /\ chan'[p] = chan[p]
  /\ Len(chan'[Other(p)]) >= Len(chan[Other(p)])
  /\ Len(timers'[p]) >= Len(timers[p])
  /\ timers'[Other(p)] = timers[Other(p)]

\* C34: an attack a peer starts schedules its application to that peer's own board
\* once; when the deferred application runs it completes, after which
\* isResolvingAttack is false and the selection is cleared; while isResolvingAttack
\* is true a local card click changes nothing and sends nothing.
C34_OwnAttackAppliedOnce ==
  [][\A p \in Peers :
       /\ SendsOne(p, "attackResult")
            => /\ timers'[p] = Append(timers[p], chan'[Other(p)][Len(chan'[Other(p)])].payload)
               /\ peers'[p].isResolvingAttack
       /\ DeferredStep(p) => AppliedOnce(peers[p], peers'[p], Head(timers[p]))
       /\ (peers[p].isResolvingAttack /\ LocalStep(p))
            => peers'[p] = peers[p] /\ chan'[Other(p)] = chan[Other(p)]]_vars

\* ---------------------------------------------------------------------- C35

\* In peer state s the unit on card i may move to or attack card j: j is one step
\* away, is empty or held by the enemy, and the unit can traverse the edge of j that
\* faces it.
LegalAction(s, i, j) ==
  /\ s.board[i].unitData # NoUnit
  /\ OneStep(s.board[i], s.board[j])
  /\ s.board[j].owner # s.board[i].owner
  /\ canUnitTraverse(s.board[i].unitData, FacingType(s.board[i], s.board[j]))

\* Two clicks of the player to move, on a card and then on another, end the turn.
ClicksEndTurn(s) ==
  \E i, j \in 1..Len(s.board) :
    LET selected == handleCardClick(Ctx([s EXCEPT !.selectedCardIndex = NoIndex]),
                                    s.board[i].id)
    IN Sent(handleCardClick(Ctx(selected.s), s.board[j].id), {"move", "attackResult"})

\* C35: in every Gameplay state in which the peers agree and nothing is in flight or
\* pending, the player to move has a unit with a legal move or attack, and the clicks
\* that perform it end the turn.
C35_NoStuckTurn ==
  (Quiescent /\ View(1) = View(2) /\ peers[1].gameState = "GAMEPLAY") =>
    LET s == peers[peers[1].currentPlayer]
    IN /\ \E i, j \in 1..Len(s.board) :
            s.board[i].owner = s.currentPlayer /\ LegalAction(s, i, j)
       /\ ClicksEndTurn(s)

\* ---------------------------------------------------------------------- C36

CommandTiles(s, player) ==
  {i \in 1..Len(s.board) :
     /\ s.board[i].owner = player
     /\ s.board[i].unitData # NoUnit
     /\ s.board[i].unitData.unitName = CommandName}

OtherTiles(s, player) ==
  {i \in 1..Len(s.board) :
     /\ s.board[i].owner = player
     /\ s.board[i].unitData # NoUnit
     /\ s.board[i].unitData.unitName # CommandName}

\* C36: in every Gameplay state of a peer each player has exactly one Mobile Command
\* on the board and at least one other unit on the board.
C36_ArmiesInGameplay ==
  \A p \in Peers :
    peers[p].gameState = "GAMEPLAY" =>
      \A player \in Peers :
        /\ Cardinality(CommandTiles(peers[p], player)) = 1
        /\ OtherTiles(peers[p], player) # {}

\* ---------------------------------------------------------------------- C37

\* A selection of peer state s is on a revealed tile that holds a unit of the local
\* player, in Gameplay, on the local player's turn.
SelectionValid(s) ==
  s.selectedCardIndex # NoIndex =>
    /\ s.gameState = "GAMEPLAY"
    /\ s.currentPlayer = s.localPlayerRole
    /\ s.selectedCardIndex \in 1..Len(s.board)
    /\ s.board[s.selectedCardIndex].unitData # NoUnit
    /\ s.board[s.selectedCardIndex].owner = s.localPlayerRole
    /\ ~s.board[s.selectedCardIndex].hidden

\* C37: whenever a peer has a selected card, the phase is Gameplay, it is the local
\* player's turn and the selected tile holds a revealed unit of the local player;
\* every move and every attack result a peer applies, its own or an inbound one,
\* clears the selection.
C37_SelectionValid ==
  [][\A p \in Peers :
       /\ SelectionValid(peers'[p])
       /\ ( /\ \/ SendsOne(p, "move")
               \/ DeferredStep(p)
               \/ InboundStep(p, "move")
               \/ InboundStep(p, "attackResult")
            /\ peers'[p].board # peers[p].board )
            => peers'[p].selectedCardIndex = NoIndex]_vars

\* ---------------------------------------------------------------------- C38

\* The game of peer state s has just been set up: Placement, an empty board, no pair
\* placed, player 1 to place.
FreshGame(s) ==
  /\ s.gameState = "PLACEMENT"
  /\ s.board = << >>
  /\ s.placedPositions = {}
  /\ s.placedCardPairCount = 0
  /\ s.currentPlayer = 1

\* The messages of a game in progress.
TurnMessages == {"placement", "reveal", "move", "attackResult"}

\* C38: a placement, reveal, move or attackResult of player 2 that reaches player 1
\* when its game has just been reset (in the new game player 2 sends nothing before
\* player 1's first placement) is not applied: player 1's game stays as resetGame left
\* it; and once every message is delivered, player 2 being in the fresh game of the
\* setup, player 1 is in it too: both in Placement with an empty board, no pair placed
\* and player 1 to place.
C38_ResetKeepsAgreement ==
  [][/\ ( /\ FreshGame(peers[1])
          /\ \E type \in TurnMessages : InboundStep(1, type) )
          => peers'[1] = peers[1]
     /\ (Quiescent' /\ FreshGame(peers'[2])) => FreshGame(peers'[1])]_vars

\* ---------------------------------------------------------------------- C39

\* Every connection that was asked for has arrived and is open at both ends, or is
\* closed and its creator has been told; no message is in flight.
RolesSettled ==
  /\ \A p \in Peers : chan[p] = << >>
  /\ \A k \in Peers :
       LET connection == probe.connections[k] IN
       connection.offered =>
         /\ connection.arrived
         /\ IF connection.closed THEN connection.closeSeen[k]
            ELSE \A e \in Peers : connection.open[e]

\* C39: the peer that initiates a connection takes role 1 and the peer that accepts
\* an incoming connection takes role 2; an incoming connection is refused when the
\* peer already has an open connection; once both peers hold an open connection their
\* roles are distinct, also when both have tried to connect to each other, and once
\* everything has settled the setup of the peer with role 1 has put both in Placement.
C39_RoleAssignment ==
  [][/\ \A p \in Peers :
          LET k == Other(p) IN
          /\ (~probe.connections[p].offered /\ probe'.connections[p].offered)
               => peers'[p].localPlayerRole = 1 /\ peers'[p].conn = p
          /\ (~probe.connections[k].arrived /\ probe'.connections[k].arrived)
               => IF peers[p].connOpen
                  THEN probe'.connections[k].closed /\ peers'[p] = peers[p]
                  ELSE peers'[p].localPlayerRole = 2 /\ peers'[p].conn = k
     /\ (\A p \in Peers : peers'[p].connOpen)
          => /\ peers'[1].localPlayerRole # peers'[2].localPlayerRole
             /\ RolesSettled' => \A p \in Peers : peers'[p].gameState = "PLACEMENT"]_vars

====
